---- MODULE Spec2Model ----
(***************************************************************************)
(* Model of the real-time messaging gateway of                             *)
(* server/app/socket_handlers.py (Flask-SocketIO handlers, Redis sliding   *)
(* window rate limiter, Supabase message / booking store).                 *)
(*                                                                         *)
(* The SocketIO server is created with async_mode="threading"              *)
(* (server/app/__init__.py), so every inbound event runs in a thread of    *)
(* its own.  A handler is therefore modelled as a sequence of steps, one   *)
(* per call that leaves the process (Redis command, store request) or      *)
(* that publishes an event; steps of different handlers interleave.        *)
(*                                                                         *)
(* Two further parts of the server are modelled beside the gateway: the    *)
(* login attempt gate of server/app/routes/auth.py and the retry           *)
(* decorator of server/app/utils/supabase_retry.py.                        *)
(***************************************************************************)
EXTENDS Integers, Sequences, FiniteSets, TLC

\* ------------------------------------------------------------------------
\* Program constants
\* ------------------------------------------------------------------------
RATE_LIMIT_COUNT == 8
RATE_LIMIT_WINDOW_SECONDS == 60
\* redis_client.expire(key, RATE_LIMIT_WINDOW_SECONDS + 10)
KeyTtlSlack == 10

\* ------------------------------------------------------------------------
\* Bounds of the model
\* ------------------------------------------------------------------------
NumSids == 3          \* connections accepted in one run
MaxFaults == 1        \* store requests that fail in one run
MaxEvents == 3        \* inbound events of one run of Spec
MaxThreads == 2       \* handler threads in flight at the same time

\* ------------------------------------------------------------------------
\* Value spaces
\* ------------------------------------------------------------------------
None == "None"                       \* Python None / SQL NULL / missing key
Users == {"u1", "u2", "u3"}
Sids == 1 .. NumSids
NullTs == -1                         \* SQL NULL in a timestamp column
Falsy(x) == x = None \/ x = ""
\* `x or None`
OrNone(x) == IF Falsy(x) THEN None ELSE x

\* room keys: f"user_{user_id}" and f"conv_{conversation_id}"
UserRoom(u) == <<"user", u>>
ConvRoom(c) == <<"conv", c>>
\* emit(...) without room= inside a handler addresses request.sid
SidRoom(s) == <<"sid", s>>

\* decode_token(token)["sub"]: the subject of a well-formed token
TokenSub(tok) == tok

\* str.strip() on a content string, modelled as a sequence of characters
IsSpace(ch) == ch = " "
RECURSIVE LStrip(_)
LStrip(str) ==
    IF str = <<>> THEN <<>>
    ELSE IF IsSpace(Head(str)) THEN LStrip(Tail(str)) ELSE str
RECURSIVE RStrip(_)
RStrip(str) ==
    IF str = <<>> THEN <<>>
    ELSE IF IsSpace(str[Len(str)]) THEN RStrip(SubSeq(str, 1, Len(str) - 1))
    ELSE str
Strip(str) == RStrip(LStrip(str))
\* str(now): the member name under which a timestamp is recorded
Str(x) == ToString(x)

VARIABLES
    now,        \* time.time() / datetime.utcnow(), in seconds
    conn,       \* conn[s]: "idle" | "open" | "closed"
    token,      \* token[s]: request.args.get("token") of the handshake
    expired,    \* sessions whose token has passed its expiry time
    rooms,      \* rooms[s]: the rooms session s is a member of
    zset,       \* zset[u]: Redis sorted set chat_rate_limit:{u}, member -> score
    expiry,     \* expiry[u]: time at which Redis drops the key
    messages,   \* rows of table "messages", id = index
    bookings,   \* table "bookings": booking id -> row (seller_id, status)
    ev,         \* ev[e]: the handler thread of inbound event e
    inbox,      \* inbox[s]: events sent to session s, in order
    emits,      \* every event published by a handler, in order
    faults,     \* store requests that have failed so far
    login_attempts, \* auth.login_attempts: email -> {"count", "last"}
    logins,     \* the login requests answered so far, in order
    wrapper     \* the call of a function decorated with retry_supabase

vars == <<now, conn, token, expired, rooms, zset, expiry, messages, bookings, ev, inbox, emits, faults,
          login_attempts, logins, wrapper>>

\* ------------------------------------------------------------------------
\* Event delivery (flask_socketio.emit)
\* ------------------------------------------------------------------------
Pkt(name, e, s, room) ==
    [name |-> name, ev |-> e, src |-> s, room |-> room, mid |-> 0, sender |-> None,
     receiver |-> None, content |-> <<>>, bid |-> None, created |-> 0,
     n |-> 0, val |-> None]

\* Members that keeps one session per user
MembersOnePerUser(room) ==
    {s \in Sids : /\ conn[s] = "open"
                  /\ (room = SidRoom(s) \/ room \in rooms[s])
                  /\ \A r \in Sids : (r < s /\ conn[r] = "open" /\ room \in rooms[r])
                                        => token[r] # token[s]}

\* the sessions an emit addressed to `room` reaches
Members(room) ==
    {s \in Sids : conn[s] = "open" /\ (room = SidRoom(s) \/ room \in rooms[s])}

Emit(ib, pkt) ==
    [s \in Sids |-> IF s \in Members(pkt.room) THEN Append(ib[s], pkt) ELSE ib[s]]

\* emit inside the connect handler: the connection is being established
EmitToSid(ib, s, pkt) == [ib EXCEPT ![s] = Append(@, pkt)]

\* emit(name, payload, room=...) as a step of a handler
Publish(pkt) ==
    /\ inbox' = Emit(inbox, pkt)
    /\ emits' = Append(emits, pkt)

PublishToSid(s, pkt) ==
    /\ inbox' = EmitToSid(inbox, s, pkt)
    /\ emits' = Append(emits, pkt)

\* ------------------------------------------------------------------------
\* Handler threads
\* ------------------------------------------------------------------------
NewEv(kind, s) ==
    [kind |-> kind, sid |-> s, pc |-> "done", res |-> "", user |-> None,
     rcv |-> None, content |-> <<>>, bid |-> None, status |-> None,
     t |-> 0, count |-> 0, adm |-> FALSE, mid |-> 0, created |-> 0,
     seller |-> None, n |-> 0, unread |-> {}, seen |-> 0, raw |-> <<>>]

\* DecodeOk that accepts a token past its expiry time
DecodeOkIgnoresExpiry(s) == token[s] \in Users

\* decode_token(token) succeeds
DecodeOk(s) == token[s] \in Users /\ s \notin expired

Active == {e \in DOMAIN ev : ev[e].pc # "done"}
NextEv == Len(ev) + 1
CanReceive(s) == conn[s] = "open"

\* ------------------------------------------------------------------------
\* Initial state
\* ------------------------------------------------------------------------
EmptyZ == [m \in {} |-> 0]

\* Connect without `return False` after the error
ConnectNoReturnFalse(s, tok) ==
    /\ conn[s] = "idle"
    /\ \A r \in Sids : r < s => conn[r] # "idle"
    /\ token' = [token EXCEPT ![s] = tok]
    /\ conn' = [conn EXCEPT ![s] = "open"]
    /\ IF tok \in Users
       THEN /\ rooms' = [rooms EXCEPT ![s] = @ \cup {UserRoom(TokenSub(tok))}]
            /\ PublishToSid(s,
                   [Pkt("connected", 0, s, SidRoom(s)) EXCEPT !.val = TokenSub(tok)])
       ELSE /\ PublishToSid(s,
                   [Pkt("error", 0, s, SidRoom(s)) EXCEPT
                      !.val = IF Falsy(tok) THEN "Authentication token required"
                              ELSE "Authentication failed"])
            /\ UNCHANGED rooms
    /\ UNCHANGED <<login_attempts, logins, wrapper, now, expired, zset, expiry, messages, bookings, ev, faults>>

\* ------------------------------------------------------------------------
\* connect / disconnect
\* ------------------------------------------------------------------------
\* handle_connect: a refused connection (return False) is dropped by the
\* server and never becomes a member of any room.
Connect(s, tok) ==
    /\ conn[s] = "idle"
    /\ \A r \in Sids : r < s => conn[r] # "idle"
    /\ token' = [token EXCEPT ![s] = tok]
    /\ IF Falsy(tok)
       THEN /\ PublishToSid(s,
                   [Pkt("error", 0, s, SidRoom(s)) EXCEPT !.val = "Authentication token required"])
            /\ conn' = [conn EXCEPT ![s] = "closed"]
            /\ UNCHANGED rooms
       ELSE IF tok \in Users
       THEN /\ rooms' = [rooms EXCEPT ![s] = @ \cup {UserRoom(TokenSub(tok))}]
            /\ PublishToSid(s,
                   [Pkt("connected", 0, s, SidRoom(s)) EXCEPT !.val = TokenSub(tok)])
            /\ conn' = [conn EXCEPT ![s] = "open"]
       ELSE /\ PublishToSid(s,
                   [Pkt("error", 0, s, SidRoom(s)) EXCEPT !.val = "Authentication failed"])
            /\ conn' = [conn EXCEPT ![s] = "closed"]
            /\ UNCHANGED rooms
    /\ UNCHANGED <<login_attempts, logins, wrapper, now, expired, zset, expiry, messages, bookings, ev, faults>>

\* Disconnect that leaves the room registry as it is
DisconnectKeepRooms(s) ==
    /\ conn[s] = "open"
    /\ conn' = [conn EXCEPT ![s] = "closed"]
    /\ UNCHANGED <<login_attempts, logins, wrapper, now, token, expired, rooms, zset, expiry, messages, bookings, ev, inbox, emits, faults>>

\* Disconnect that ends the handler threads of the session
DisconnectCancelsHandlers(s) ==
    /\ conn[s] = "open"
    /\ conn' = [conn EXCEPT ![s] = "closed"]
    /\ rooms' = [rooms EXCEPT ![s] = {}]
    /\ ev' = [e \in DOMAIN ev |->
                IF ev[e].sid = s /\ ev[e].pc # "done"
                THEN [ev[e] EXCEPT !.pc = "done", !.res = "cancelled"] ELSE ev[e]]
    /\ UNCHANGED <<login_attempts, logins, wrapper, now, token, expired, zset, expiry, messages, bookings, inbox, emits, faults>>

\* handle_disconnect only logs; Flask-SocketIO removes the session from
\* every room when the connection goes away.
Disconnect(s) ==
    /\ conn[s] = "open"
    /\ conn' = [conn EXCEPT ![s] = "closed"]
    /\ rooms' = [rooms EXCEPT ![s] = {}]
    /\ UNCHANGED <<login_attempts, logins, wrapper, now, token, expired, zset, expiry, messages, bookings, ev, inbox, emits, faults>>

\* the token of a live session reaches its expiry time: decode_token raises
\* from then on
TokenExpire(s) ==
    /\ conn[s] = "open"
    /\ s \notin expired
    /\ expired' = expired \cup {s}
    /\ UNCHANGED <<login_attempts, logins, wrapper, now, conn, token, rooms, zset, expiry, messages, bookings, ev, inbox, emits, faults>>

\* passage of time
Tick(d) ==
    /\ d > 0
    /\ now' = now + d
    /\ UNCHANGED <<login_attempts, logins, wrapper, conn, token, expired, rooms, zset, expiry, messages, bookings, ev, inbox, emits, faults>>

\* ------------------------------------------------------------------------
\* Rate limiter (is_rate_limited), one step per Redis command
\* ------------------------------------------------------------------------
\* the sorted set as Redis serves it: a key past its TTL is gone
ZGet(u) == IF now >= expiry[u] THEN EmptyZ ELSE zset[u]

\* zremrangebyscore(key, lo, hi): drop the members with lo <= score <= hi
ZRemRangeByScore(z, lo, hi) ==
    [m \in {x \in DOMAIN z : ~(lo <= z[x] /\ z[x] <= hi)} |-> z[m]]

\* zcard(key)
ZCard(z) == Cardinality(DOMAIN z)

\* zadd(key, {member: score}): a member that exists only gets a new score
ZAdd(z, member, score) ==
    [m \in DOMAIN z \cup {member} |-> IF m = member THEN score ELSE z[m]]

\* now = time.time(); zremrangebyscore(key, 0, now - RATE_LIMIT_WINDOW_SECONDS)
RlPurge(e) ==
    /\ e \in DOMAIN ev
    /\ ev[e].pc = "rl_purge"
    /\ LET u == ev[e].user IN
       /\ zset' = [zset EXCEPT ![u] =
                     ZRemRangeByScore(ZGet(u), 0, now - RATE_LIMIT_WINDOW_SECONDS)]
       /\ ev' = [ev EXCEPT ![e].t = now, ![e].pc = "rl_count"]
    /\ UNCHANGED <<login_attempts, logins, wrapper, now, conn, token, expired, rooms, expiry, messages, bookings, inbox, emits, faults>>

\* count = zcard(key)
RlCount(e) ==
    /\ e \in DOMAIN ev
    /\ ev[e].pc = "rl_count"
    /\ ev' = [ev EXCEPT ![e].count = ZCard(ZGet(ev[e].user)), ![e].pc = "rl_add"]
    /\ UNCHANGED <<login_attempts, logins, wrapper, now, conn, token, expired, rooms, zset, expiry, messages, bookings, inbox, emits, faults>>

\* RlAdd that sends the rate-limit error to the sender's mailbox room
RlAddErrorToMailbox(e) ==
    /\ e \in DOMAIN ev
    /\ ev[e].pc = "rl_add"
    /\ LET u == ev[e].user IN
       IF ev[e].count >= RATE_LIMIT_COUNT
       THEN /\ ev' = [ev EXCEPT ![e].pc = "done", ![e].res = "rate_limited"]
            /\ Publish([Pkt("error", e, ev[e].sid, UserRoom(u)) EXCEPT
                          !.val = "You are sending messages too quickly. Please wait a moment."])
            /\ UNCHANGED <<zset, expiry>>
       ELSE /\ zset' = [zset EXCEPT ![u] = ZAdd(ZGet(u), Str(ev[e].t), ev[e].t)]
            /\ expiry' = [expiry EXCEPT ![u] = now + RATE_LIMIT_WINDOW_SECONDS + KeyTtlSlack]
            /\ ev' = [ev EXCEPT ![e].pc = "insert", ![e].adm = TRUE, ![e].created = now]
            /\ UNCHANGED <<inbox, emits>>
    /\ UNCHANGED <<login_attempts, logins, wrapper, now, conn, token, expired, rooms, messages, bookings, faults>>

\* RlAdd that records the timestamp of a rejected call too
RlAddRecordsRejected(e) ==
    /\ e \in DOMAIN ev
    /\ ev[e].pc = "rl_add"
    /\ LET u == ev[e].user IN
       /\ zset' = [zset EXCEPT ![u] = ZAdd(ZGet(u), Str(ev[e].t), ev[e].t)]
       /\ expiry' = [expiry EXCEPT ![u] = now + RATE_LIMIT_WINDOW_SECONDS + KeyTtlSlack]
       /\ IF ev[e].count >= RATE_LIMIT_COUNT
          THEN /\ ev' = [ev EXCEPT ![e].pc = "done", ![e].res = "rate_limited"]
               /\ Publish([Pkt("error", e, ev[e].sid, SidRoom(ev[e].sid)) EXCEPT
                             !.val = "You are sending messages too quickly. Please wait a moment."])
          ELSE /\ ev' = [ev EXCEPT ![e].pc = "insert", ![e].adm = TRUE, ![e].created = now]
               /\ UNCHANGED <<inbox, emits>>
    /\ UNCHANGED <<login_attempts, logins, wrapper, now, conn, token, expired, rooms, messages, bookings, faults>>

\* RlAdd without the return after the rate-limit error
RlAddNoReturn(e) ==
    /\ e \in DOMAIN ev
    /\ ev[e].pc = "rl_add"
    /\ LET u == ev[e].user IN
       IF ev[e].count >= RATE_LIMIT_COUNT
       THEN /\ ev' = [ev EXCEPT ![e].pc = "insert", ![e].created = now]
            /\ Publish([Pkt("error", e, ev[e].sid, SidRoom(ev[e].sid)) EXCEPT
                          !.val = "You are sending messages too quickly. Please wait a moment."])
            /\ UNCHANGED <<zset, expiry>>
       ELSE /\ zset' = [zset EXCEPT ![u] = ZAdd(ZGet(u), Str(ev[e].t), ev[e].t)]
            /\ expiry' = [expiry EXCEPT ![u] = now + RATE_LIMIT_WINDOW_SECONDS + KeyTtlSlack]
            /\ ev' = [ev EXCEPT ![e].pc = "insert", ![e].adm = TRUE, ![e].created = now]
            /\ UNCHANGED <<inbox, emits>>
    /\ UNCHANGED <<login_attempts, logins, wrapper, now, conn, token, expired, rooms, messages, bookings, faults>>

\* if count >= RATE_LIMIT_COUNT: return True  -> handle_message emits the
\* rate-limit error and returns.  Otherwise zadd + expire, return False, and
\* handle_message builds the message (created_at = utcnow()).
RlAdd(e) ==
    /\ e \in DOMAIN ev
    /\ ev[e].pc = "rl_add"
    /\ LET u == ev[e].user IN
       IF ev[e].count >= RATE_LIMIT_COUNT
       THEN /\ ev' = [ev EXCEPT ![e].pc = "done", ![e].res = "rate_limited"]
            /\ Publish([Pkt("error", e, ev[e].sid, SidRoom(ev[e].sid)) EXCEPT
                                       !.val = "You are sending messages too quickly. Please wait a moment."])
            /\ UNCHANGED <<zset, expiry>>
       ELSE /\ zset' = [zset EXCEPT ![u] = ZAdd(ZGet(u), Str(ev[e].t), ev[e].t)]
            /\ expiry' = [expiry EXCEPT ![u] = now + RATE_LIMIT_WINDOW_SECONDS + KeyTtlSlack]
            /\ ev' = [ev EXCEPT ![e].pc = "insert", ![e].adm = TRUE, ![e].created = now]
            /\ UNCHANGED <<inbox, emits>>
    /\ UNCHANGED <<login_attempts, logins, wrapper, now, conn, token, expired, rooms, messages, bookings, faults>>

\* SendRecv that validates the content as it came, without strip()
SendRecvNoStrip(s, r, c, b) ==
    /\ CanReceive(s)
    /\ LET e == NextEv
           base == [NewEv("send", s) EXCEPT !.rcv = r, !.raw = c, !.content = Strip(c),
                                            !.bid = b]
           err(res, msg) ==
               /\ ev' = Append(ev, [base EXCEPT !.res = res])
               /\ Publish([Pkt("error", e, s, SidRoom(s)) EXCEPT !.val = msg])
       IN
       IF Falsy(token[s]) THEN err("auth_err", "Authentication required")
       ELSE IF ~DecodeOk(s) THEN err("auth_err", "Authentication failed")
       ELSE IF Falsy(r) \/ c = <<>>
       THEN /\ ev' = Append(ev, [base EXCEPT !.res = "invalid", !.user = TokenSub(token[s])])
            /\ Publish([Pkt("error", e, s, SidRoom(s)) EXCEPT
                                       !.val = "receiver_id and content are required"])
       ELSE /\ ev' = Append(ev, [base EXCEPT !.pc = "rl_purge", !.user = TokenSub(token[s])])
            /\ UNCHANGED <<inbox, emits>>
    /\ UNCHANGED <<login_attempts, logins, wrapper, now, conn, token, expired, rooms, zset, expiry, messages, bookings, faults>>

\* ------------------------------------------------------------------------
\* send_message (handle_message)
\* ------------------------------------------------------------------------
\* token check, payload validation
SendRecv(s, r, c, b) ==
    /\ CanReceive(s)
    /\ LET e == NextEv
           base == [NewEv("send", s) EXCEPT !.rcv = r, !.raw = c, !.content = Strip(c),
                                            !.bid = b]
           err(res, msg) ==
               /\ ev' = Append(ev, [base EXCEPT !.res = res])
               /\ Publish([Pkt("error", e, s, SidRoom(s)) EXCEPT !.val = msg])
       IN
       IF Falsy(token[s]) THEN err("auth_err", "Authentication required")
       ELSE IF ~DecodeOk(s) THEN err("auth_err", "Authentication failed")
       ELSE IF Falsy(r) \/ Strip(c) = <<>>
       THEN /\ ev' = Append(ev, [base EXCEPT !.res = "invalid", !.user = TokenSub(token[s])])
            /\ Publish([Pkt("error", e, s, SidRoom(s)) EXCEPT
                                       !.val = "receiver_id and content are required"])
       ELSE /\ ev' = Append(ev, [base EXCEPT !.pc = "rl_purge", !.user = TokenSub(token[s])])
            /\ UNCHANGED <<inbox, emits>>
    /\ UNCHANGED <<login_attempts, logins, wrapper, now, conn, token, expired, rooms, zset, expiry, messages, bookings, faults>>

\* SendInsert without the early return after "Could not save message"
SendInsertNoReturn(e, outcome) ==
    /\ e \in DOMAIN ev
    /\ ev[e].pc = "insert"
    /\ IF outcome = "ok"
       THEN LET id == Len(messages) + 1
                row == [id |-> id, sender_id |-> ev[e].user, receiver_id |-> ev[e].rcv,
                        content |-> ev[e].content, booking_id |-> OrNone(ev[e].bid),
                        created_at |-> ev[e].created, read_at |-> NullTs]
            IN /\ messages' = Append(messages, row)
               /\ ev' = [ev EXCEPT ![e].pc = "emit_msg", ![e].mid = id]
               /\ UNCHANGED <<inbox, emits, faults>>
       ELSE /\ faults < MaxFaults
            /\ faults' = faults + 1
            /\ ev' = [ev EXCEPT ![e].pc = "emit_notif",
                                ![e].res = IF outcome = "nodata" THEN "no_data" ELSE "exception"]
            /\ Publish([Pkt("error", e, ev[e].sid, SidRoom(ev[e].sid)) EXCEPT
                         !.val = "Could not save message"])
            /\ UNCHANGED messages
    /\ UNCHANGED <<login_attempts, logins, wrapper, now, conn, token, expired, rooms, zset, expiry, bookings>>

\* SendInsert that takes sender_id from the payload (the receiver_id field)
SendInsertSenderFromPayload(e, outcome) ==
    /\ e \in DOMAIN ev
    /\ ev[e].pc = "insert"
    /\ IF outcome = "ok"
       THEN LET id == Len(messages) + 1
                row == [id |-> id, sender_id |-> ev[e].rcv, receiver_id |-> ev[e].rcv,
                        content |-> ev[e].content, booking_id |-> OrNone(ev[e].bid),
                        created_at |-> ev[e].created, read_at |-> NullTs]
            IN /\ messages' = Append(messages, row)
               /\ ev' = [ev EXCEPT ![e].pc = "emit_msg", ![e].mid = id]
               /\ UNCHANGED <<inbox, emits, faults>>
       ELSE /\ faults < MaxFaults
            /\ faults' = faults + 1
            /\ ev' = [ev EXCEPT ![e].pc = "done",
                                ![e].res = IF outcome = "nodata" THEN "no_data" ELSE "exception"]
            /\ Publish([Pkt("error", e, ev[e].sid, SidRoom(ev[e].sid)) EXCEPT
                         !.val = IF outcome = "nodata" THEN "Could not save message"
                                 ELSE "Failed to send message. Please try again."])
            /\ UNCHANGED messages
    /\ UNCHANGED <<login_attempts, logins, wrapper, now, conn, token, expired, rooms, zset, expiry, bookings>>

\* supabase.table("messages").insert(message).execute()
\*   "ok": the row is stored and returned; "nodata": res.data is empty;
\*   "raise": the request raises
SendInsert(e, outcome) ==
    /\ e \in DOMAIN ev
    /\ ev[e].pc = "insert"
    /\ IF outcome = "ok"
       THEN LET id == Len(messages) + 1
                row == [id |-> id, sender_id |-> ev[e].user, receiver_id |-> ev[e].rcv,
                        content |-> ev[e].content, booking_id |-> OrNone(ev[e].bid),
                        created_at |-> ev[e].created, read_at |-> NullTs]
            IN /\ messages' = Append(messages, row)
               /\ ev' = [ev EXCEPT ![e].pc = "emit_msg", ![e].mid = id]
               /\ UNCHANGED <<inbox, emits, faults>>
       ELSE /\ faults < MaxFaults
            /\ faults' = faults + 1
            /\ ev' = [ev EXCEPT ![e].pc = "done",
                                ![e].res = IF outcome = "nodata" THEN "no_data" ELSE "exception"]
            /\ Publish([Pkt("error", e, ev[e].sid, SidRoom(ev[e].sid)) EXCEPT
                         !.val = IF outcome = "nodata" THEN "Could not save message"
                                 ELSE "Failed to send message. Please try again."])
            /\ UNCHANGED messages
    /\ UNCHANGED <<login_attempts, logins, wrapper, now, conn, token, expired, rooms, zset, expiry, bookings>>

\* TargetRoom that always picks the receiver's mailbox
TargetRoomMailbox(bid, rcv) == UserRoom(rcv)

\* room = f"conv_{booking_id}" if booking_id else f"user_{receiver_id}"
TargetRoom(bid, rcv) == IF ~Falsy(bid) THEN ConvRoom(bid) ELSE UserRoom(rcv)

\* emit("new_message", {...saved...}, room=room)
SendEmitMsg(e) ==
    /\ e \in DOMAIN ev
    /\ ev[e].pc = "emit_msg"
    /\ LET saved == messages[ev[e].mid] IN
       Publish([Pkt("new_message", e, ev[e].sid, TargetRoom(ev[e].bid, ev[e].rcv)) EXCEPT
                    !.mid = saved.id, !.sender = ev[e].user, !.receiver = ev[e].rcv,
                    !.content = saved.content, !.bid = saved.booking_id,
                    !.created = saved.created_at])
    /\ ev' = [ev EXCEPT ![e].pc = "emit_notif"]
    /\ UNCHANGED <<login_attempts, logins, wrapper, now, conn, token, expired, rooms, zset, expiry, messages, bookings, faults>>

\* emit("notification", {...}, room=f"user_{receiver_id}")
SendEmitNotif(e) ==
    /\ e \in DOMAIN ev
    /\ ev[e].pc = "emit_notif"
    /\ Publish([Pkt("notification", e, ev[e].sid, UserRoom(ev[e].rcv)) EXCEPT
                    !.sender = ev[e].user, !.bid = ev[e].bid, !.val = "message"])
    /\ ev' = [ev EXCEPT ![e].pc = "done", ![e].res = "sent"]
    /\ UNCHANGED <<login_attempts, logins, wrapper, now, conn, token, expired, rooms, zset, expiry, messages, bookings, faults>>

\* JoinRecv that makes conv_{id} the only room of the session
JoinRecvSwitchesRoom(s, c) ==
    /\ CanReceive(s)
    /\ LET e == NextEv
           base == [NewEv("join", s) EXCEPT !.bid = c]
           err(msg) ==
               /\ ev' = Append(ev, [base EXCEPT !.res = "auth_err"])
               /\ Publish([Pkt("error", e, s, SidRoom(s)) EXCEPT !.val = msg])
               /\ UNCHANGED rooms
       IN
       IF Falsy(token[s]) THEN err("Token required")
       ELSE IF ~DecodeOk(s) THEN err("Invalid authentication")
       ELSE IF Falsy(c)
       THEN /\ ev' = Append(ev, [base EXCEPT !.res = "invalid", !.user = TokenSub(token[s])])
            /\ Publish([Pkt("error", e, s, SidRoom(s)) EXCEPT !.val = "conversation_id required"])
            /\ UNCHANGED rooms
       ELSE /\ rooms' = [rooms EXCEPT ![s] = {ConvRoom(c)}]
            /\ ev' = Append(ev, [base EXCEPT !.pc = "mark", !.user = TokenSub(token[s])])
            /\ Publish([Pkt("status", e, s, SidRoom(s)) EXCEPT !.bid = c])
    /\ UNCHANGED <<login_attempts, logins, wrapper, now, conn, token, expired, zset, expiry, messages, bookings, faults>>

\* JoinRecv that calls join_room before it looks at conversation_id
JoinRecvJoinsFirst(s, c) ==
    /\ CanReceive(s)
    /\ LET e == NextEv
           base == [NewEv("join", s) EXCEPT !.bid = c]
           err(msg) ==
               /\ ev' = Append(ev, [base EXCEPT !.res = "auth_err"])
               /\ Publish([Pkt("error", e, s, SidRoom(s)) EXCEPT !.val = msg])
               /\ UNCHANGED rooms
       IN
       IF Falsy(token[s]) THEN err("Token required")
       ELSE IF ~DecodeOk(s) THEN err("Invalid authentication")
       ELSE IF Falsy(c)
       THEN /\ rooms' = [rooms EXCEPT ![s] = @ \cup {ConvRoom(c)}]
            /\ ev' = Append(ev, [base EXCEPT !.res = "invalid", !.user = TokenSub(token[s])])
            /\ Publish([Pkt("error", e, s, SidRoom(s)) EXCEPT !.val = "conversation_id required"])
       ELSE /\ rooms' = [rooms EXCEPT ![s] = @ \cup {ConvRoom(c)}]
            /\ ev' = Append(ev, [base EXCEPT !.pc = "mark", !.user = TokenSub(token[s])])
            /\ Publish([Pkt("status", e, s, SidRoom(s)) EXCEPT !.bid = c])
    /\ UNCHANGED <<login_attempts, logins, wrapper, now, conn, token, expired, zset, expiry, messages, bookings, faults>>

\* JoinRecv that leaves the conversations joined before (one open
\* conversation per session)
JoinRecvLeavesOthers(s, c) ==
    /\ CanReceive(s)
    /\ LET e == NextEv
           base == [NewEv("join", s) EXCEPT !.bid = c]
           err(msg) ==
               /\ ev' = Append(ev, [base EXCEPT !.res = "auth_err"])
               /\ Publish([Pkt("error", e, s, SidRoom(s)) EXCEPT !.val = msg])
               /\ UNCHANGED rooms
       IN
       IF Falsy(token[s]) THEN err("Token required")
       ELSE IF ~DecodeOk(s) THEN err("Invalid authentication")
       ELSE IF Falsy(c)
       THEN /\ ev' = Append(ev, [base EXCEPT !.res = "invalid", !.user = TokenSub(token[s])])
            /\ Publish([Pkt("error", e, s, SidRoom(s)) EXCEPT !.val = "conversation_id required"])
            /\ UNCHANGED rooms
       ELSE /\ rooms' = [rooms EXCEPT ![s] = {r \in @ : r[1] = "user"} \cup {ConvRoom(c)}]
            /\ ev' = Append(ev, [base EXCEPT !.pc = "mark", !.user = TokenSub(token[s])])
            /\ Publish([Pkt("status", e, s, SidRoom(s)) EXCEPT !.bid = c])
    /\ UNCHANGED <<login_attempts, logins, wrapper, now, conn, token, expired, zset, expiry, messages, bookings, faults>>

\* ------------------------------------------------------------------------
\* join_conversation (on_join)
\* ------------------------------------------------------------------------
\* token check, payload validation, join_room(room), status acknowledgment
JoinRecv(s, c) ==
    /\ CanReceive(s)
    /\ LET e == NextEv
           base == [NewEv("join", s) EXCEPT !.bid = c]
           err(msg) ==
               /\ ev' = Append(ev, [base EXCEPT !.res = "auth_err"])
               /\ Publish([Pkt("error", e, s, SidRoom(s)) EXCEPT !.val = msg])
               /\ UNCHANGED rooms
       IN
       IF Falsy(token[s]) THEN err("Token required")
       ELSE IF ~DecodeOk(s) THEN err("Invalid authentication")
       ELSE IF Falsy(c)
       THEN /\ ev' = Append(ev, [base EXCEPT !.res = "invalid", !.user = TokenSub(token[s])])
            /\ Publish([Pkt("error", e, s, SidRoom(s)) EXCEPT !.val = "conversation_id required"])
            /\ UNCHANGED rooms
       ELSE /\ rooms' = [rooms EXCEPT ![s] = @ \cup {ConvRoom(c)}]
            /\ ev' = Append(ev, [base EXCEPT !.pc = "mark", !.user = TokenSub(token[s])])
            /\ Publish([Pkt("status", e, s, SidRoom(s)) EXCEPT !.bid = c])
    /\ UNCHANGED <<login_attempts, logins, wrapper, now, conn, token, expired, zset, expiry, messages, bookings, faults>>

\* Unread without the .is_("read_at", None) filter
UnreadOrRead(u, c) ==
    {i \in DOMAIN messages : /\ messages[i].receiver_id = u
                             /\ messages[i].booking_id = c}

\* Unread without the .eq("receiver_id", user_id) filter
UnreadAnyReceiver(u, c) ==
    {i \in DOMAIN messages : /\ messages[i].booking_id = c
                             /\ messages[i].read_at = NullTs}

\* the rows the read-receipt update selects:
\*   .eq("receiver_id", user_id).eq("booking_id", conversation_id).is_("read_at", None)
Unread(u, c) ==
    {i \in DOMAIN messages : /\ messages[i].receiver_id = u
                             /\ messages[i].booking_id = c
                             /\ messages[i].read_at = NullTs}

\* JoinMark that reports a failed update to the caller and undoes the join
JoinMarkBreaksJoin(e, outcome) ==
    /\ e \in DOMAIN ev
    /\ ev[e].pc = "mark"
    /\ LET hit == Unread(ev[e].user, ev[e].bid) IN
       IF outcome = "ok"
       THEN /\ messages' = [i \in DOMAIN messages |->
                              IF i \in hit THEN [messages[i] EXCEPT !.read_at = now]
                              ELSE messages[i]]
            /\ ev' = [ev EXCEPT ![e].n = Cardinality(hit), ![e].unread = hit,
                                ![e].seen = Len(messages),
                                ![e].pc = IF hit # {} THEN "emit_read" ELSE "done",
                                ![e].res = "joined"]
            /\ UNCHANGED <<faults, rooms, inbox, emits>>
       ELSE /\ faults < MaxFaults
            /\ faults' = faults + 1
            /\ ev' = [ev EXCEPT ![e].pc = "done", ![e].res = "mark_failed", ![e].unread = hit,
                                ![e].seen = Len(messages)]
            /\ rooms' = [rooms EXCEPT ![ev[e].sid] = @ \ {ConvRoom(ev[e].bid)}]
            /\ Publish([Pkt("error", e, ev[e].sid, SidRoom(ev[e].sid)) EXCEPT
                          !.val = "Failed to mark messages as read"])
            /\ UNCHANGED messages
    /\ UNCHANGED <<login_attempts, logins, wrapper, now, conn, token, expired, zset, expiry, bookings>>

\* supabase.table("messages").update({"read_at": utcnow()})...execute()
\*   "ok": the selected rows are updated and returned; "raise": the request
\*   raises, which on_join logs and swallows
JoinMark(e, outcome) ==
    /\ e \in DOMAIN ev
    /\ ev[e].pc = "mark"
    /\ LET hit == Unread(ev[e].user, ev[e].bid) IN
       IF outcome = "ok"
       THEN /\ messages' = [i \in DOMAIN messages |->
                              IF i \in hit THEN [messages[i] EXCEPT !.read_at = now]
                              ELSE messages[i]]
            /\ ev' = [ev EXCEPT ![e].n = Cardinality(hit), ![e].unread = hit,
                                ![e].seen = Len(messages),
                                ![e].pc = IF hit # {} THEN "emit_read" ELSE "done",
                                ![e].res = "joined"]
            /\ UNCHANGED faults
       ELSE /\ faults < MaxFaults
            /\ faults' = faults + 1
            /\ ev' = [ev EXCEPT ![e].pc = "done", ![e].res = "mark_failed", ![e].unread = hit,
                                ![e].seen = Len(messages)]
            /\ UNCHANGED messages
    /\ UNCHANGED <<login_attempts, logins, wrapper, now, conn, token, expired, rooms, zset, expiry, bookings, inbox, emits>>

\* The same update as the store executes it when it guarantees no more than
\* atomicity per row: the statement tests and sets read_at of one row at a
\* time, and the rows of two statements that run at the same time interleave.
\* JoinMarkRow that sets read_at of a row without testing it again
JoinMarkRowStale(e) ==
    /\ e \in DOMAIN ev
    /\ ev[e].pc = "mark"
    /\ \E i \in UnreadOrRead(ev[e].user, ev[e].bid) \ ev[e].unread :
          /\ messages' = [messages EXCEPT ![i].read_at = now]
          /\ ev' = [ev EXCEPT ![e].unread = @ \cup {i}]
    /\ UNCHANGED <<login_attempts, logins, wrapper, now, conn, token, expired, rooms, zset, expiry, bookings, inbox, emits, faults>>

\* one row of the update: a row that matches the filter, read_at IS NULL
\* included, gets read_at and is returned
JoinMarkRow(e) ==
    /\ e \in DOMAIN ev
    /\ ev[e].pc = "mark"
    /\ \E i \in Unread(ev[e].user, ev[e].bid) :
          /\ messages' = [messages EXCEPT ![i].read_at = now]
          /\ ev' = [ev EXCEPT ![e].unread = @ \cup {i}]
    /\ UNCHANGED <<login_attempts, logins, wrapper, now, conn, token, expired, rooms, zset, expiry, bookings, inbox, emits, faults>>

\* the update has gone through the rows: execute() returns the rows it
\* changed, and `if unread.data` decides whether messages_read is emitted
JoinMarkEnd(e) ==
    /\ e \in DOMAIN ev
    /\ ev[e].pc = "mark"
    /\ Unread(ev[e].user, ev[e].bid) \ ev[e].unread = {}
    /\ ev' = [ev EXCEPT ![e].n = Cardinality(ev[e].unread),
                        ![e].seen = Len(messages),
                        ![e].pc = IF ev[e].unread # {} THEN "emit_read" ELSE "done",
                        ![e].res = "joined"]
    /\ UNCHANGED <<login_attempts, logins, wrapper, now, conn, token, expired, rooms, zset, expiry, messages, bookings, inbox, emits, faults>>

\* emit("messages_read", {"booking_id": ..., "count": len(unread.data)}, room=room)
JoinEmitRead(e) ==
    /\ e \in DOMAIN ev
    /\ ev[e].pc = "emit_read"
    /\ Publish([Pkt("messages_read", e, ev[e].sid, ConvRoom(ev[e].bid)) EXCEPT
                    !.bid = ev[e].bid, !.n = ev[e].n])
    /\ ev' = [ev EXCEPT ![e].pc = "done"]
    /\ UNCHANGED <<login_attempts, logins, wrapper, now, conn, token, expired, rooms, zset, expiry, messages, bookings, faults>>

\* BookRecv that answers a malformed event with an error, as the other
\* handlers do
BookRecvReportsInvalid(s, b, st) ==
    /\ CanReceive(s)
    /\ LET base == [NewEv("book", s) EXCEPT !.bid = b, !.status = st] IN
       IF Falsy(token[s]) \/ ~DecodeOk(s)
       THEN /\ ev' = Append(ev, [base EXCEPT !.res = "ignored"])
            /\ UNCHANGED <<inbox, emits>>
       ELSE IF Falsy(b) \/ Falsy(st)
       THEN /\ ev' = Append(ev, [base EXCEPT !.res = "ignored", !.user = TokenSub(token[s])])
            /\ Publish([Pkt("error", NextEv, s, SidRoom(s)) EXCEPT
                          !.val = "booking_id and status are required"])
       ELSE /\ ev' = Append(ev, [base EXCEPT !.pc = "select", !.user = TokenSub(token[s])])
            /\ UNCHANGED <<inbox, emits>>
    /\ UNCHANGED <<login_attempts, logins, wrapper, now, conn, token, expired, rooms, zset, expiry, messages, bookings, faults>>

\* ------------------------------------------------------------------------
\* booking_update (handle_booking_update)
\* ------------------------------------------------------------------------
\* token check and payload check, both silent
BookRecv(s, b, st) ==
    /\ CanReceive(s)
    /\ LET base == [NewEv("book", s) EXCEPT !.bid = b, !.status = st] IN
       IF Falsy(token[s]) \/ ~DecodeOk(s)
       THEN ev' = Append(ev, [base EXCEPT !.res = "ignored"])
       ELSE IF Falsy(b) \/ Falsy(st)
       THEN ev' = Append(ev, [base EXCEPT !.res = "ignored", !.user = TokenSub(token[s])])
       ELSE ev' = Append(ev, [base EXCEPT !.pc = "select", !.user = TokenSub(token[s])])
    /\ UNCHANGED <<login_attempts, logins, wrapper, now, conn, token, expired, rooms, zset, expiry, messages, bookings, inbox, emits, faults>>

\* supabase.table("bookings").select("seller_id").eq("id", booking_id)
\*     .maybe_single().execute().data
\*   "ok": the row, or None when there is no such booking; "raise": the
\*   request raises, which the handler logs
BookSelect(e, outcome) ==
    /\ e \in DOMAIN ev
    /\ ev[e].pc = "select"
    /\ IF outcome = "ok"
       THEN /\ ev' = [ev EXCEPT ![e].pc = "emit_book",
                       ![e].seller = IF ev[e].bid \in DOMAIN bookings
                                     THEN bookings[ev[e].bid].seller_id ELSE None]
            /\ UNCHANGED faults
       ELSE /\ faults < MaxFaults
            /\ faults' = faults + 1
            /\ ev' = [ev EXCEPT ![e].pc = "done", ![e].res = "exception"]
    /\ UNCHANGED <<login_attempts, logins, wrapper, now, conn, token, expired, rooms, zset, expiry, messages, bookings, inbox, emits>>

\* BookEmit without the `not booking` test
BookEmitNoExistenceCheck(e) ==
    /\ e \in DOMAIN ev
    /\ ev[e].pc = "emit_book"
    /\ IF ev[e].seller # None /\ ev[e].seller # ev[e].user
       THEN /\ Publish([Pkt("error", e, ev[e].sid, SidRoom(ev[e].sid)) EXCEPT
                            !.val = "Unauthorized action"])
            /\ ev' = [ev EXCEPT ![e].pc = "done", ![e].res = "unauthorized"]
       ELSE /\ Publish([Pkt("booking_updated", e, ev[e].sid, ConvRoom(ev[e].bid)) EXCEPT
                            !.bid = ev[e].bid, !.val = ev[e].status, !.sender = ev[e].user])
            /\ ev' = [ev EXCEPT ![e].pc = "done", ![e].res = "relayed"]
    /\ UNCHANGED <<login_attempts, logins, wrapper, now, conn, token, expired, rooms, zset, expiry, messages, bookings, faults>>

\* BookEmit that also writes the new status to the bookings table
BookEmitWritesStatus(e) ==
    /\ e \in DOMAIN ev
    /\ ev[e].pc = "emit_book"
    /\ IF ev[e].seller = None \/ ev[e].seller # ev[e].user
       THEN /\ Publish([Pkt("error", e, ev[e].sid, SidRoom(ev[e].sid)) EXCEPT
                            !.val = "Unauthorized action"])
            /\ ev' = [ev EXCEPT ![e].pc = "done", ![e].res = "unauthorized"]
            /\ UNCHANGED bookings
       ELSE /\ Publish([Pkt("booking_updated", e, ev[e].sid, ConvRoom(ev[e].bid)) EXCEPT
                            !.bid = ev[e].bid, !.val = ev[e].status, !.sender = ev[e].user])
            /\ ev' = [ev EXCEPT ![e].pc = "done", ![e].res = "relayed"]
            /\ bookings' = [bookings EXCEPT ![ev[e].bid].status = ev[e].status]
    /\ UNCHANGED <<login_attempts, logins, wrapper, now, conn, token, expired, rooms, zset, expiry, messages, faults>>

\* if not booking or booking["seller_id"] != user_id: error, return
\* emit("booking_updated", {...}, room=f"conv_{booking_id}")
BookEmit(e) ==
    /\ e \in DOMAIN ev
    /\ ev[e].pc = "emit_book"
    /\ IF ev[e].seller = None \/ ev[e].seller # ev[e].user
       THEN /\ Publish([Pkt("error", e, ev[e].sid, SidRoom(ev[e].sid)) EXCEPT
                            !.val = "Unauthorized action"])
            /\ ev' = [ev EXCEPT ![e].pc = "done", ![e].res = "unauthorized"]
       ELSE /\ Publish([Pkt("booking_updated", e, ev[e].sid, ConvRoom(ev[e].bid)) EXCEPT
                            !.bid = ev[e].bid, !.val = ev[e].status, !.sender = ev[e].user])
            /\ ev' = [ev EXCEPT ![e].pc = "done", ![e].res = "relayed"]
    /\ UNCHANGED <<login_attempts, logins, wrapper, now, conn, token, expired, rooms, zset, expiry, messages, bookings, faults>>

\* ------------------------------------------------------------------------
\* Specifications
\* ------------------------------------------------------------------------
\* The state after the sessions 1 .. Len(toks) have connected with the valid
\* tokens toks, at time t0, against a Redis holding z and a message store
\* holding store (both outlive the gateway process).
Connected(s, u) == [Pkt("connected", 0, s, SidRoom(s)) EXCEPT !.val = u]

\* the bookings table as the REST API left it: booking b1 of seller u1
StoredBookings == [b \in {"b1"} |-> [seller_id |-> "u1", status |-> "pending"]]

\* login_attempts = {}: no email has a tracker entry
NoAttempts == <<>>

\* no call of a decorated function is under way
NotCalled == [pc |-> "idle"]

InitWith(toks, t0, z, store) ==
    /\ now = t0
    /\ conn = [s \in Sids |-> IF s <= Len(toks) THEN "open" ELSE "idle"]
    /\ token = [s \in Sids |-> IF s <= Len(toks) THEN toks[s] ELSE None]
    /\ expired = {}
    /\ rooms = [s \in Sids |-> IF s <= Len(toks) THEN {UserRoom(TokenSub(toks[s]))} ELSE {}]
    /\ zset = z
    /\ expiry = [u \in Users |-> IF z[u] = EmptyZ THEN 0
                                 ELSE t0 + RATE_LIMIT_WINDOW_SECONDS + KeyTtlSlack]
    /\ messages = store
    /\ bookings = StoredBookings
    /\ ev = <<>>
    /\ inbox = [s \in Sids |-> IF s <= Len(toks) THEN <<Connected(s, TokenSub(toks[s]))>> ELSE <<>>]
    /\ emits = [s \in 1 .. Len(toks) |-> Connected(s, TokenSub(toks[s]))]
    /\ faults = 0
    /\ login_attempts = NoAttempts
    /\ logins = <<>>
    /\ wrapper = NotCalled

NoZ == [u \in Users |-> EmptyZ]

\* a new event is accepted while the run has room for it
Quota(maxEv, maxThr) == Len(ev) < maxEv /\ Cardinality(Active) < maxThr

\* Spec: a conversation.  Two sessions of u1 and one session of u2 are
\* connected; u1's sessions join conversation b1, u2 sends to u1 with and
\* without a conversation key, u1's second session and u2's session may
\* disconnect.
Init == InitWith(<<"u1", "u1", "u2">>, 0, NoZ, <<>>)

Next ==
    \/ \E s \in {1, 2} : Quota(MaxEvents, MaxThreads) /\ JoinRecv(s, "b1")
    \/ \E b \in {"", "b1"} : Quota(MaxEvents, MaxThreads) /\ SendRecv(3, "u1", <<"h">>, b)
    \/ \E s \in {2, 3} : Disconnect(s)
    \/ \E e \in 1 .. MaxEvents :
          \/ RlPurge(e)
          \/ RlCount(e)
          \/ RlAdd(e)
          \/ \E o \in {"ok", "nodata", "raise"} : SendInsert(e, o)
          \/ SendEmitMsg(e)
          \/ SendEmitNotif(e)
          \/ \E o \in {"ok", "raise"} : JoinMark(e, o)
          \/ JoinEmitRead(e)

Spec == Init /\ [][Next]_vars

\* SpecFanout: the same three sessions; u1's sessions join conversation b1,
\* each as often as it likes, and u2 sends into b1.
MaxFanEvents == 4

NextFanout ==
    \/ \E s \in {1, 2} : Quota(MaxFanEvents, MaxThreads) /\ JoinRecv(s, "b1")
    \/ Quota(MaxFanEvents, MaxThreads) /\ SendRecv(3, "u1", <<"h">>, "b1")
    \/ \E e \in 1 .. MaxFanEvents :
          \/ RlPurge(e)
          \/ RlCount(e)
          \/ RlAdd(e)
          \/ \E o \in {"ok", "nodata", "raise"} : SendInsert(e, o)
          \/ SendEmitMsg(e)
          \/ SendEmitNotif(e)
          \/ \E o \in {"ok", "raise"} : JoinMark(e, o)
          \/ JoinEmitRead(e)

SpecFanout == Init /\ [][NextFanout]_vars

\* SpecGate: the gateway facing arbitrary clients.  Nobody is connected at
\* first; connections arrive with no token, a bad token or a valid one,
\* tokens expire, and every event arrives with well-formed and malformed
\* payloads.  Redis already holds a full window for u2 (eight sends in the
\* seconds 0 .. 7, the store having answered none of them), so u2's sends
\* meet the rate limit.
MaxGateEvents == 2
GateThreads == 1
GateSids == {1, 2}

RECURSIVE ZFill(_)
ZFill(k) == IF k < 0 THEN EmptyZ ELSE ZAdd(ZFill(k - 1), Str(k), k)
FullWindow == [u \in Users |-> IF u = "u2" THEN ZFill(RATE_LIMIT_COUNT - 1) ELSE EmptyZ]

\* send_message payloads <<receiver_id, content, booking_id>>
GateSends == {<<"", <<"h">>, "">>, <<"u1", <<" ">>, "">>,
              <<"u1", <<"h">>, "">>, <<"u1", <<"h">>, "b1">>}
\* booking_update payloads <<booking_id, status>>; b9 is no booking
GateBookings == {<<"", "done">>, <<"b1", "">>, <<"b1", "done">>, <<"b9", "done">>}

InitGate == InitWith(<<>>, RATE_LIMIT_COUNT - 1, FullWindow, <<>>)

NextGate ==
    \/ \E s \in GateSids, tok \in {"", "bad", "u1", "u2"} : Connect(s, tok)
    \/ \E s \in GateSids : TokenExpire(s)
    \/ \E s \in GateSids : Disconnect(s)
    \/ \E s \in GateSids, c \in {"", "b1"} :
          Quota(MaxGateEvents, GateThreads) /\ JoinRecv(s, c)
    \/ \E s \in GateSids, p \in GateSends :
          Quota(MaxGateEvents, GateThreads) /\ SendRecv(s, p[1], p[2], p[3])
    \/ \E s \in GateSids, p \in GateBookings :
          Quota(MaxGateEvents, GateThreads) /\ BookRecv(s, p[1], p[2])
    \/ \E e \in 1 .. MaxGateEvents :
          \/ RlPurge(e)
          \/ RlCount(e)
          \/ RlAdd(e)
          \/ \E o \in {"ok", "nodata", "raise"} : SendInsert(e, o)
          \/ SendEmitMsg(e)
          \/ SendEmitNotif(e)
          \/ \E o \in {"ok", "raise"} : JoinMark(e, o)
          \/ JoinEmitRead(e)
          \/ \E o \in {"ok", "raise"} : BookSelect(e, o)
          \/ BookEmit(e)

SpecGate == InitGate /\ [][NextGate]_vars

\* SpecRead: read receipts.  The same three sessions; the store is empty
\* or already holds unread messages (two from u2 to u1 in conversation b1,
\* one from u1 to u2 in b1, one from u2 to u1 outside any conversation).
\* Sessions join b1, u2 sends into b1, the clock advances.
MaxReadEvents == 3
MaxReadTime == 1

Row(id, from, to, b) ==
    [id |-> id, sender_id |-> from, receiver_id |-> to, content |-> <<"h">>,
     booking_id |-> b, created_at |-> 0, read_at |-> NullTs]
Backlog == <<Row(1, "u2", "u1", "b1"), Row(2, "u2", "u1", "b1"),
             Row(3, "u1", "u2", "b1"), Row(4, "u2", "u1", None)>>

InitRead ==
    \/ InitWith(<<"u1", "u1", "u2">>, 0, NoZ, <<>>)
    \/ InitWith(<<"u1", "u1", "u2">>, 0, NoZ, Backlog)

NextRead ==
    \/ \E s \in Sids : Quota(MaxReadEvents, MaxThreads) /\ JoinRecv(s, "b1")
    \/ Quota(MaxReadEvents, MaxThreads) /\ SendRecv(3, "u1", <<"h">>, "b1")
    \/ now < MaxReadTime /\ Tick(1)
    \/ \E e \in 1 .. MaxReadEvents :
          \/ RlPurge(e)
          \/ RlCount(e)
          \/ RlAdd(e)
          \/ \E o \in {"ok", "nodata", "raise"} : SendInsert(e, o)
          \/ SendEmitMsg(e)
          \/ SendEmitNotif(e)
          \/ \E o \in {"ok", "raise"} : JoinMark(e, o)
          \/ JoinEmitRead(e)

SpecRead == InitRead /\ [][NextRead]_vars

\* SpecRate: one sender against the rate limiter.  A session of u1 is
\* connected, the window of u1 is empty; u1 sends one message after the
\* other, each handled to its end before the next arrives, and the clock
\* advances by at most one second between two sends.
MaxRateEvents == 9

InitRate == InitWith(<<"u1">>, 0, NoZ, <<>>)

NextRate ==
    \/ Quota(MaxRateEvents, 1) /\ SendRecv(1, "u2", <<"h">>, "")
    \/ /\ Active = {}
       /\ ev # <<>> /\ ev[Len(ev)].t = now
       /\ Tick(1)
    \/ \E e \in 1 .. MaxRateEvents :
          \/ RlPurge(e)
          \/ RlCount(e)
          \/ RlAdd(e)
          \/ \E o \in {"ok", "nodata", "raise"} : SendInsert(e, o)
          \/ SendEmitMsg(e)
          \/ SendEmitNotif(e)

SpecRate == InitRate /\ [][NextRate]_vars

\* SpecRace: one sender, two sessions, concurrent sends.  Redis holds seven
\* admitted timestamps of u1 (the seconds 0 .. 6, a state SpecRate reaches);
\* both sessions of u1 send, two handlers run at a time, the clock advances.
MaxRaceEvents == 3
MaxRaceTime == 9
NearlyFull == [u \in Users |-> IF u = "u1" THEN ZFill(RATE_LIMIT_COUNT - 2) ELSE EmptyZ]

InitRace == InitWith(<<"u1", "u1">>, RATE_LIMIT_COUNT - 1, NearlyFull, <<>>)

NextRace ==
    \/ \E s \in {1, 2} : Quota(MaxRaceEvents, MaxThreads) /\ SendRecv(s, "u2", <<"h">>, "")
    \/ now < MaxRaceTime /\ Tick(1)
    \/ \E e \in 1 .. MaxRaceEvents :
          \/ RlPurge(e)
          \/ RlCount(e)
          \/ RlAdd(e)
          \/ \E o \in {"ok", "nodata", "raise"} : SendInsert(e, o)
          \/ SendEmitMsg(e)
          \/ SendEmitNotif(e)

SpecRace == InitRace /\ [][NextRace]_vars

\* SpecWindow: a blocked sender and the passage of time.  A session of u2
\* is connected at second 7 and Redis holds a full window for u2 (the
\* seconds 0 .. 7).  u2 sends one message after the other, each handled to
\* its end before the next arrives; the clock jumps to later points in time:
\* just before the oldest timestamp leaves the window, the seconds at which
\* the oldest ones leave it, and a point after the TTL of the key.
MaxWinEvents == 4
WinTimes == {RATE_LIMIT_WINDOW_SECONDS - 1, RATE_LIMIT_WINDOW_SECONDS,
             RATE_LIMIT_WINDOW_SECONDS + 1,
             2 * RATE_LIMIT_WINDOW_SECONDS + KeyTtlSlack}

InitWindow == InitWith(<<"u2">>, RATE_LIMIT_COUNT - 1, FullWindow, <<>>)

NextWindow ==
    \/ Quota(MaxWinEvents, 1) /\ SendRecv(1, "u1", <<"h">>, "")
    \/ \E t \in WinTimes : t > now /\ Tick(t - now)
    \/ \E e \in 1 .. MaxWinEvents :
          \/ RlPurge(e)
          \/ RlCount(e)
          \/ RlAdd(e)
          \/ \E o \in {"ok", "nodata", "raise"} : SendInsert(e, o)
          \/ SendEmitMsg(e)
          \/ SendEmitNotif(e)

SpecWindow == InitWindow /\ [][NextWindow]_vars

\* SpecTrip: what is stored for what was sent.  A session of u1 is
\* connected; it sends, one message after the other, any content of up to
\* MaxLen characters drawn from a letter and a blank, to u2 or to nobody.
MaxLen == 3
MaxTripEvents == 2
Chars == {"h", " "}
Contents == UNION {[1 .. k -> Chars] : k \in 0 .. MaxLen}

InitTrip == InitWith(<<"u1">>, 0, NoZ, <<>>)

NextTrip ==
    \/ \E r \in {"", "u2"}, c \in Contents :
          Quota(MaxTripEvents, 1) /\ SendRecv(1, r, c, "")
    \/ \E e \in 1 .. MaxTripEvents :
          \/ RlPurge(e)
          \/ RlCount(e)
          \/ RlAdd(e)
          \/ \E o \in {"ok", "nodata", "raise"} : SendInsert(e, o)
          \/ SendEmitMsg(e)
          \/ SendEmitNotif(e)

SpecTrip == InitTrip /\ [][NextTrip]_vars

\* SpecDrop: a sender that goes away in the middle of a send.  Two sessions
\* of u1 and one of u2 are connected.  The first session of u1 sends to u1,
\* with and without the conversation key b1, so it is itself a member of the
\* rooms its messages go to; it and u2's session may join b1.  One handler
\* runs at a time, and a session disconnects only while a send of its own is
\* waiting for the store insert, after the rate limiter has admitted it.
\* The store answers every request; a handler thread that can take a step
\* eventually takes it.
MaxDropEvents == 3

AtInsert(e) == e \in DOMAIN ev /\ ev[e].kind = "send" /\ ev[e].pc = "insert"

HandlerStep ==
    \E e \in 1 .. MaxDropEvents :
       \/ RlPurge(e)
       \/ RlCount(e)
       \/ RlAdd(e)
       \/ SendInsert(e, "ok")
       \/ SendEmitMsg(e)
       \/ SendEmitNotif(e)
       \/ JoinMark(e, "ok")
       \/ JoinEmitRead(e)

NextDrop ==
    \/ \E s \in {1, 3} : Quota(MaxDropEvents, 1) /\ JoinRecv(s, "b1")
    \/ \E b \in {"", "b1"} : Quota(MaxDropEvents, 1) /\ SendRecv(1, "u1", <<"h">>, b)
    \/ \E e \in 1 .. MaxDropEvents : AtInsert(e) /\ Disconnect(ev[e].sid)
    \/ HandlerStep

SpecDrop == Init /\ [][NextDrop]_vars /\ WF_vars(HandlerStep)

\* SpecIdent: who acts.  A session of u1 and a session of u2 are connected.
\* Either sends to u1, u2 or u3 with and without the conversation key b1,
\* joins b1, or sends a booking_update for b1 (u1 is its seller); one
\* handler runs at a time.  The handlers read receiver_id, content,
\* booking_id, conversation_id and status from the payload and nothing else.
MaxIdentEvents == 2

InitIdent == InitWith(<<"u1", "u2">>, 0, NoZ, <<>>)

NextIdent ==
    \/ \E s \in {1, 2} : Quota(MaxIdentEvents, 1) /\ JoinRecv(s, "b1")
    \/ \E s \in {1, 2}, r \in Users, b \in {"", "b1"} :
          Quota(MaxIdentEvents, 1) /\ SendRecv(s, r, <<"h">>, b)
    \/ \E s \in {1, 2} : Quota(MaxIdentEvents, 1) /\ BookRecv(s, "b1", "done")
    \/ \E e \in 1 .. MaxIdentEvents :
          \/ RlPurge(e)
          \/ RlCount(e)
          \/ RlAdd(e)
          \/ \E o \in {"ok", "nodata", "raise"} : SendInsert(e, o)
          \/ SendEmitMsg(e)
          \/ SendEmitNotif(e)
          \/ \E o \in {"ok", "raise"} : JoinMark(e, o)
          \/ JoinEmitRead(e)
          \/ \E o \in {"ok", "raise"} : BookSelect(e, o)
          \/ BookEmit(e)

SpecIdent == InitIdent /\ [][NextIdent]_vars

\* SpecRooms: one session in several conversations.  A session of u1 and a
\* session of u2 are connected; u1's session joins b1 and b2 in any order
\* and as often as it likes, u2's session sends to u1 into b1 and into b2,
\* u1's session may disconnect.  One handler runs at a time.
MaxRoomEvents == 4

NextRooms ==
    \/ \E c \in {"b1", "b2"} : Quota(MaxRoomEvents, 1) /\ JoinRecv(1, c)
    \/ \E b \in {"b1", "b2"} : Quota(MaxRoomEvents, 1) /\ SendRecv(2, "u1", <<"h">>, b)
    \/ Disconnect(1)
    \/ \E e \in 1 .. MaxRoomEvents :
          \/ RlPurge(e)
          \/ RlCount(e)
          \/ RlAdd(e)
          \/ \E o \in {"ok", "nodata", "raise"} : SendInsert(e, o)
          \/ SendEmitMsg(e)
          \/ SendEmitNotif(e)
          \/ \E o \in {"ok", "raise"} : JoinMark(e, o)
          \/ JoinEmitRead(e)

SpecRooms == InitIdent /\ [][NextRooms]_vars

\* SpecExpire: a token that expires on a live session.  A session of u2 and
\* a session of u1 (the seller of b1) are connected; the store holds unread
\* messages.  The token of u2's session may expire at any moment.  Both
\* sessions join b1, send into b1 and send booking_update for b1; one
\* handler runs at a time and the store answers.
MaxExpireEvents == 5

InitExpire == InitWith(<<"u2", "u1">>, 0, NoZ, Backlog)

NextExpire ==
    \/ TokenExpire(1)
    \/ \E s \in {1, 2} : Quota(MaxExpireEvents, 1) /\ JoinRecv(s, "b1")
    \/ \E s \in {1, 2} :
          Quota(MaxExpireEvents, 1) /\ SendRecv(s, IF s = 1 THEN "u1" ELSE "u2", <<"h">>, "b1")
    \/ \E s \in {1, 2} : Quota(MaxExpireEvents, 1) /\ BookRecv(s, "b1", "done")
    \/ \E e \in 1 .. MaxExpireEvents :
          \/ RlPurge(e)
          \/ RlCount(e)
          \/ RlAdd(e)
          \/ SendInsert(e, "ok")
          \/ SendEmitMsg(e)
          \/ SendEmitNotif(e)
          \/ JoinMark(e, "ok")
          \/ JoinEmitRead(e)
          \/ BookSelect(e, "ok")
          \/ BookEmit(e)

SpecExpire == InitExpire /\ [][NextExpire]_vars

\* SpecJoin: concurrent joins over unread messages.  Two sessions of u1 and
\* one of u2 are connected and the store holds the backlog (two unread
\* messages to u1 in b1, one to u2 in b1).  The sessions join b1, two
\* handlers at a time, and the store executes the read-receipt update row by
\* row.
MaxJoinEvents == 3

InitJoin == InitWith(<<"u1", "u1", "u2">>, 0, NoZ, Backlog)

NextJoin ==
    \/ \E s \in Sids : Quota(MaxJoinEvents, MaxThreads) /\ JoinRecv(s, "b1")
    \/ \E e \in 1 .. MaxJoinEvents :
          \/ JoinMarkRow(e)
          \/ JoinMarkEnd(e)
          \/ JoinEmitRead(e)

SpecJoin == InitJoin /\ [][NextJoin]_vars

\* ------------------------------------------------------------------------
\* Login attempt gate (routes/auth.py, login)
\* ------------------------------------------------------------------------
\* `attempt["count"] >= 10` and `.total_seconds() < 900`
LoginLimit == 10
LoginWindow == 900

\* str.lower() on the alphabet of the model's emails
Lower(str) == [i \in DOMAIN str |-> IF str[i] = "A" THEN "a" ELSE str[i]]

\* login_attempts[email] = attempt
PutAttempt(email, attempt) ==
    [m \in DOMAIN login_attempts \cup {email} |->
        IF m = email THEN attempt ELSE login_attempts[m]]

\* POST /api/auth/login up to the call of the identity provider.  A request
\* without email or password is answered 400 before the gate and leaves
\* nothing behind; a request that reaches the gate is answered 429 or goes
\* on to sign_in_with_password ("auth") after the tracker has been written.
Login(rawEmail, password) ==
    LET email == Lower(Strip(rawEmail))
        attempt == IF email \in DOMAIN login_attempts
                   THEN login_attempts[email]
                   ELSE [count |-> 0, last |-> now - LoginWindow]
        inWindow == now - attempt.last < LoginWindow
        current == IF inWindow THEN attempt ELSE [count |-> 0, last |-> now]
    IN  /\ IF email = <<>> \/ password = ""
           THEN UNCHANGED <<login_attempts, logins>>
           ELSE IF inWindow /\ attempt.count >= LoginLimit
           THEN /\ logins' = Append(logins, [email |-> email, t |-> now, status |-> "429"])
                /\ UNCHANGED login_attempts
           ELSE /\ login_attempts' = PutAttempt(email, [count |-> current.count + 1, last |-> now])
                /\ logins' = Append(logins, [email |-> email, t |-> now, status |-> "auth"])
        /\ UNCHANGED <<wrapper, now, conn, token, expired, rooms, zset, expiry, messages, bookings, ev, inbox, emits, faults>>

\* SpecLogin: login requests for one mailbox, written in two ways, with and
\* without email and password, handled one at a time while time passes in
\* steps of LoginTick seconds.
MaxLogins == 12
MaxLoginTime == 1000
LoginTick == 500
RawEmails == {<<"a">>, <<"A", " ">>, <<>>}

InitLogin == InitWith(<<>>, 0, NoZ, <<>>)

NextLogin ==
    \/ \E m \in RawEmails, p \in {"", "pw"} : Len(logins) < MaxLogins /\ Login(m, p)
    \/ now < MaxLoginTime /\ Tick(LoginTick)

SpecLogin == InitLogin /\ [][NextLogin]_vars

\* ------------------------------------------------------------------------
\* Retry decorator (utils/supabase_retry.py, retry_supabase)
\* ------------------------------------------------------------------------
\* the text of an exception, modelled as its sequence of words
Messages == {<<"Server", "disconnected">>, <<"Read", "Timeout">>, <<"permission", "denied">>}

\* str.lower() on a word of the model's exception texts
LowerWord(w) == IF w = "Timeout" THEN "timeout"
                ELSE IF w = "Server" THEN "server"
                ELSE IF w = "Read" THEN "read" ELSE w

\* "disconnected" in str(e).lower() or "timeout" in str(e).lower()
Transient(msg) == \E i \in DOMAIN msg : LowerWord(msg[i]) \in {"disconnected", "timeout"}

\* backoff ** retries
RECURSIVE Pow(_, _)
Pow(b, k) == IF k = 0 THEN 1 ELSE b * Pow(b, k - 1)

\* what an invocation of the wrapped function does: it returns, or it raises
\* an exception with a text
Returns == [raises |-> FALSE, text |-> <<>>]
Raises(msg) == [raises |-> TRUE, text |-> msg]
Outcomes == {Returns} \cup {Raises(msg) : msg \in Messages}

\* how the call of the wrapper ends: with the value of invocation k, or with
\* an exception
Value(k) == [kind |-> "value", call |-> k, text |-> <<>>]
Exc(msg) == [kind |-> "exception", call |-> 0, text |-> msg]
Pending == [kind |-> "none", call |-> 0, text |-> <<>>]

\* Exception(f"Supabase failed after {max_retries} retries")
FailedAfter(m) == Exc(<<"Supabase", "failed", "after", ToString(m), "retries">>)

\* wrapper(*args, **kwargs) is entered: retries = 0
Wrap(m, b) ==
    /\ wrapper.pc = "idle"
    /\ wrapper' = [pc |-> "loop", max_retries |-> m, backoff |-> b, retries |-> 0,
                   outcomes |-> <<>>, slept |-> <<>>, result |-> Pending]
    /\ UNCHANGED <<login_attempts, logins, now, conn, token, expired, rooms, zset, expiry, messages, bookings, ev, inbox, emits, faults>>

\* RetryCall that takes every exception for a transient one
RetryCallRetriesAll(outcome) ==
    /\ wrapper.pc = "loop"
    /\ wrapper.retries < wrapper.max_retries
    /\ LET calls == Len(wrapper.outcomes) + 1 IN
       IF ~outcome.raises
       THEN wrapper' = [wrapper EXCEPT !.outcomes = Append(@, outcome), !.pc = "returned",
                                       !.result = Value(calls)]
       ELSE wrapper' = [wrapper EXCEPT !.outcomes = Append(@, outcome), !.pc = "sleep",
                                       !.retries = @ + 1]
    /\ UNCHANGED <<login_attempts, logins, now, conn, token, expired, rooms, zset, expiry, messages, bookings, ev, inbox, emits, faults>>

\* one pass of `while retries < max_retries`: func is invoked; it returns
\* or raises an exception
RetryCall(outcome) ==
    /\ wrapper.pc = "loop"
    /\ wrapper.retries < wrapper.max_retries
    /\ LET calls == Len(wrapper.outcomes) + 1 IN
       IF ~outcome.raises
       THEN wrapper' = [wrapper EXCEPT !.outcomes = Append(@, outcome), !.pc = "returned",
                                       !.result = Value(calls)]
       ELSE IF Transient(outcome.text)
       THEN wrapper' = [wrapper EXCEPT !.outcomes = Append(@, outcome), !.pc = "sleep",
                                       !.retries = @ + 1]
       ELSE wrapper' = [wrapper EXCEPT !.outcomes = Append(@, outcome), !.pc = "raised",
                                       !.result = Exc(outcome.text)]
    /\ UNCHANGED <<login_attempts, logins, now, conn, token, expired, rooms, zset, expiry, messages, bookings, ev, inbox, emits, faults>>

\* wait = backoff ** retries; time.sleep(wait)
RetrySleep ==
    /\ wrapper.pc = "sleep"
    /\ LET wait == Pow(wrapper.backoff, wrapper.retries) IN
          /\ now' = now + wait
          /\ wrapper' = [wrapper EXCEPT !.slept = Append(@, wait), !.pc = "loop"]
    /\ UNCHANGED <<login_attempts, logins, conn, token, expired, rooms, zset, expiry, messages, bookings, ev, inbox, emits, faults>>

\* the loop condition fails: raise Exception("Supabase failed after ...")
RetryGiveUp ==
    /\ wrapper.pc = "loop"
    /\ wrapper.retries >= wrapper.max_retries
    /\ wrapper' = [wrapper EXCEPT !.pc = "raised", !.result = FailedAfter(wrapper.max_retries)]
    /\ UNCHANGED <<login_attempts, logins, now, conn, token, expired, rooms, zset, expiry, messages, bookings, ev, inbox, emits, faults>>

\* SpecRetry: one call of a decorated function, for every max_retries up to
\* MaxRetries and every whole backoff up to MaxBackoff.  Each invocation of
\* the wrapped function returns or raises one of Messages; an invocation
\* that was made ends, and a wrapper that can take a step takes it.
MaxRetries == 3
MaxBackoff == 2

WrapperStep ==
    \/ \E o \in Outcomes : RetryCall(o)
    \/ RetrySleep
    \/ RetryGiveUp

NextRetry ==
    \/ \E m \in 0 .. MaxRetries, b \in 0 .. MaxBackoff : Wrap(m, b)
    \/ WrapperStep

SpecRetry == InitLogin /\ [][NextRetry]_vars /\ WF_vars(WrapperStep)

\* ------------------------------------------------------------------------
\* Properties
\* ------------------------------------------------------------------------
SendEvents == {e \in DOMAIN ev : ev[e].kind = "send"}
JoinEvents == {e \in DOMAIN ev : ev[e].kind = "join"}
BookEvents == {e \in DOMAIN ev : ev[e].kind = "book"}

\* the positions of log at which event e published an event called name
Pos(log, e, name) == {i \in DOMAIN log : log[i].ev = e /\ log[i].name = name}
\* the store insert of send event e returned a persisted record
Persisted(e) == ev[e].mid > 0
InsertFailed(e) == ev[e].res \in {"no_data", "exception"}
Relay == {"new_message", "notification"}

\* C1, on the states: a new_message or notification is on the wire only for
\* a send whose insert returned a stored row, and that row is in the store
\* by then; a send whose insert returned no data or raised publishes
\* neither, to any session; once the handler is past its new_message emit,
\* exactly one new_message has been published for the persisted row.
C1_State ==
    /\ \A i \in DOMAIN emits :
          emits[i].name \in Relay =>
             LET e == emits[i].ev IN
             /\ e \in SendEvents /\ Persisted(e)
             /\ ev[e].mid \in DOMAIN messages
             /\ emits[i].name = "new_message" =>
                   /\ emits[i].mid = ev[e].mid
                   /\ messages[emits[i].mid].content = emits[i].content
    /\ \A s \in Sids : \A i \in DOMAIN inbox[s] :
          inbox[s][i].name \in Relay =>
             /\ inbox[s][i].ev \in SendEvents
             /\ Persisted(inbox[s][i].ev)
             /\ ~InsertFailed(inbox[s][i].ev)
    /\ \A e \in SendEvents :
          /\ InsertFailed(e) => ~Persisted(e) /\ \A n \in Relay : Pos(emits, e, n) = {}
          /\ Persisted(e) /\ ev[e].pc \in {"emit_notif", "done"}
                => Cardinality(Pos(emits, e, "new_message")) = 1
          /\ ev[e].pc = "emit_msg" => Pos(emits, e, "new_message") = {}

\* C1, on the steps: the step that publishes new_message for a persisted
\* row delivers it to every session that is a member of the target room at
\* that moment, and to no other session.
C1_Step ==
    \A e \in DOMAIN ev :
       (ev[e].pc = "emit_msg" /\ ev'[e].pc # "emit_msg") =>
          \A s \in Sids :
             LET got == {i \in DOMAIN inbox'[s] : i > Len(inbox[s])} IN
             IF conn[s] = "open" /\ TargetRoom(ev[e].bid, ev[e].rcv) \in rooms[s]
             THEN /\ Cardinality(got) = 1
                  /\ \A i \in got : /\ inbox'[s][i].name = "new_message"
                                    /\ inbox'[s][i].mid = ev[e].mid
             ELSE got = {}

\* C1: new_message reaches the members of the target room if and only if
\* the insert returned a persisted record, and only after the insert; a
\* failed insert yields no new_message and no notification.
C1_PersistThenBroadcast == [](C1_State) /\ [][C1_Step]_vars

\* C1 witness: a persisted message was delivered to a session, and another
\* send of the same run failed at the store.
C1_Witness ==
    /\ \E s \in Sids : \E i \in DOMAIN inbox[s] : inbox[s][i].name = "new_message"
    /\ \E e \in SendEvents : InsertFailed(e)

\* C10: a persisted message is published as new_message to exactly one
\* room, conv_{key} when the event carries a non-empty key and the
\* receiver's mailbox user_{receiver_id} otherwise, and as exactly one
\* notification to user_{receiver_id}; no other room gets either event.
C10_OnePrimaryRoom ==
    /\ \A e \in SendEvents :
          LET nm == Pos(emits, e, "new_message")
              nt == Pos(emits, e, "notification")
              primary == IF ev[e].bid \notin {None, ""}
                         THEN <<"conv", ev[e].bid>> ELSE <<"user", ev[e].rcv>>
          IN /\ \A i \in nm : emits[i].room = primary
             /\ \A i \in nt : emits[i].room = <<"user", ev[e].rcv>>
             /\ Cardinality(nm) <= 1 /\ Cardinality(nt) <= 1
             /\ Cardinality(nt) = 1 => Cardinality(nm) = 1
             /\ Persisted(e) /\ ev[e].pc = "done"
                   => Cardinality(nm) = 1 /\ Cardinality(nt) = 1
    /\ \A s \in Sids : \A i \in DOMAIN inbox[s] :
          inbox[s][i].name \in Relay =>
             \E k \in Pos(emits, inbox[s][i].ev, inbox[s][i].name) : emits[k] = inbox[s][i]

\* C10 witness: one message went out with a conversation key and one
\* without, each with its notification.
C10_Witness ==
    \E e1, e2 \in SendEvents :
       /\ ev[e1].res = "sent" /\ ev[e1].bid = "b1"
       /\ ev[e2].res = "sent" /\ ev[e2].bid = ""
       /\ Pos(emits, e1, "notification") # {} /\ Pos(emits, e2, "notification") # {}

\* join_room(conv_X) ran for join event j
Joined(j) == j \in JoinEvents /\ ev[j].res \notin {"auth_err", "invalid"}

\* C9: a persisted message sent with conversation key X is delivered as
\* new_message exactly once to every connected session that joined conv_X
\* before the send was received (sessions of the same user included, however
\* often they joined), and at most once to any session.
C9_ExactlyOncePerSession ==
    \A e \in SendEvents :
       (Persisted(e) /\ ev[e].bid \notin {None, ""} /\ ev[e].pc \in {"emit_notif", "done"}) =>
          \A s \in Sids :
             LET got == Cardinality(Pos(inbox[s], e, "new_message")) IN
             /\ got <= 1
             /\ (conn[s] = "open"
                 /\ \E j \in DOMAIN ev : j < e /\ Joined(j) /\ ev[j].sid = s /\ ev[j].bid = ev[e].bid)
                => got = 1

\* C9 witness: both sessions of u1 joined b1, the first of them twice, u2's
\* message into b1 was persisted, and each of the two sessions holds it.
C9_Witness ==
    \E e \in SendEvents :
       /\ ev[e].res = "sent" /\ ev[e].bid = "b1"
       /\ Cardinality({j \in JoinEvents : j < e /\ ev[j].sid = 1}) >= 2
       /\ \E j \in JoinEvents : j < e /\ ev[j].sid = 2
       /\ \A s \in {1, 2} : Cardinality(Pos(inbox[s], e, "new_message")) = 1

\* C4 as claimed: two persisted messages of one session for one
\* conversation, received in the order e1, e2, are inserted in that order,
\* carry created_at in that order, and reach every session in that order.
C4_SessionOrder ==
    \A e1, e2 \in SendEvents :
       (/\ e1 < e2
        /\ ev[e1].sid = ev[e2].sid
        /\ ev[e1].bid = ev[e2].bid
        /\ ev[e1].pc = "done" /\ ev[e1].res = "sent"
        /\ ev[e2].pc = "done" /\ ev[e2].res = "sent") =>
          /\ ev[e1].mid < ev[e2].mid
          /\ messages[ev[e1].mid].created_at <= messages[ev[e2].mid].created_at
          /\ \A s \in Sids :
                \A i \in Pos(inbox[s], e1, "new_message") :
                   \A k \in Pos(inbox[s], e2, "new_message") : i < k

\* C5, on the states: a session that is gone is a member of no room.
C5_State == \A s \in Sids : conn[s] = "closed" => rooms[s] = {}

\* C5, on the steps: nothing is delivered to a session that is gone, and
\* the step in which a session goes away publishes nothing (no error).
C5_Step ==
    \A s \in Sids :
       /\ conn[s] = "closed" => inbox'[s] = inbox[s]
       /\ (conn[s] = "open" /\ conn'[s] = "closed") => emits' = emits /\ inbox' = inbox

\* C5: after its disconnect a session is in no room and receives no
\* broadcast; the disconnect itself raises no error, whether or not the
\* connection ever authenticated.
C5_DisconnectLeavesRooms == [](C5_State) /\ [][C5_Step]_vars

\* C5 witness: a session joined a conversation and disconnected, a message
\* was then broadcast to that conversation and did not reach it; another
\* connection was refused at connect and is in no room either.
C5_Witness ==
    /\ \E s \in Sids, j \in JoinEvents, e \in SendEvents :
          /\ conn[s] = "closed"
          /\ j < e /\ Joined(j) /\ ev[j].sid = s /\ ev[e].bid = ev[j].bid
          /\ Pos(emits, e, "new_message") # {}
          /\ Pos(inbox[s], e, "new_message") = {}
    /\ \E s \in Sids : conn[s] = "closed" /\ token[s] \notin Users

\* the caller of booking event e is not the seller the store records for
\* the booking (or the store has no such booking)
NotSeller(e) ==
    /\ ev[e].user # None
    /\ (ev[e].bid \notin DOMAIN bookings \/ bookings[ev[e].bid].seller_id # ev[e].user)

C7_ErrorsToCallerOnly ==
    /\ \A i \in DOMAIN emits :
          emits[i].name = "error" => emits[i].room = <<"sid", emits[i].src>>
    /\ \A s \in Sids : \A i \in DOMAIN inbox[s] :
          inbox[s][i].name = "error" => inbox[s][i].src = s

\* C7 witness: two sessions of one user are connected, one of them got an
\* error for an event of its own and the other did not see it; a refused
\* connect is not needed for this case.
C7_Witness ==
    \E s, r \in Sids :
       /\ s # r /\ conn[s] = "open" /\ conn[r] = "open" /\ token[s] = token[r]
       /\ \E i \in DOMAIN inbox[s] :
             /\ inbox[s][i].name = "error" /\ inbox[s][i].ev > 0
             /\ Pos(inbox[r], inbox[s][i].ev, "error") = {}

\* the read-receipt update of join event e was answered by the store
Marked(e) == e \in JoinEvents /\ ev[e].res = "joined"

\* C8, on the states.  ev[e].unread is the set of rows that were unread for
\* the joining user in the conversation when the update of join e ran, N its
\* size.  If N > 0 the join publishes exactly one messages_read, with count
\* N, to conv_C, and the N rows have read_at set from then on; if N = 0 it
\* publishes none.  Of two joins of one user to one conversation, one finds
\* only rows inserted after the other's update: a join repeated with no new
\* message in between finds nothing and announces nothing.
C8_State ==
    /\ \A e \in JoinEvents :
          LET mr == Pos(emits, e, "messages_read") IN
          /\ Cardinality(mr) <= 1
          /\ \A i \in mr : /\ emits[i].n = Cardinality(ev[e].unread)
                           /\ emits[i].n > 0
                           /\ emits[i].room = <<"conv", ev[e].bid>>
                           /\ Marked(e)
          /\ Marked(e) =>
                /\ \A i \in ev[e].unread : messages[i].read_at # NullTs
                /\ ev[e].pc = "done" => Cardinality(mr) = IF ev[e].unread = {} THEN 0 ELSE 1
    /\ \A e1, e2 \in JoinEvents :
          (/\ e1 # e2 /\ Marked(e1) /\ Marked(e2)
           /\ ev[e1].user = ev[e2].user /\ ev[e1].bid = ev[e2].bid) =>
             /\ ev[e1].unread \cap ev[e2].unread = {}
             /\ \/ \A i \in ev[e2].unread : i > ev[e1].seen
                \/ \A i \in ev[e1].unread : i > ev[e2].seen

\* C8, on the steps: the update of a join sets read_at of exactly the rows
\* that are unread for that user in that conversation, and of no other row;
\* a row that has read_at set never changes again.
C8_Step ==
    /\ \A e \in DOMAIN ev :
          (ev[e].pc = "mark" /\ ev'[e].pc # "mark" /\ ev'[e].res = "joined") =>
             /\ ev'[e].unread = {i \in DOMAIN messages :
                                   /\ messages[i].receiver_id = ev[e].user
                                   /\ messages[i].booking_id = ev[e].bid
                                   /\ messages[i].read_at = NullTs}
             /\ \A i \in DOMAIN messages :
                   IF i \in ev'[e].unread THEN messages'[i].read_at # NullTs
                   ELSE messages'[i] = messages[i]
    /\ \A i \in DOMAIN messages :
          messages[i].read_at # NullTs => messages'[i] = messages[i]

\* C8: a join with N unread messages announces count N once and marks them
\* all; with none it announces nothing; marking is idempotent.
C8_ReadReceipts == [](C8_State) /\ [][C8_Step]_vars

\* C8 witness: u1 joined b1 with two unread messages and count 2 was
\* announced; u1 joined b1 again later, found nothing and announced nothing.
C8_Witness ==
    \E e1, e2 \in JoinEvents :
       /\ e1 < e2 /\ ev[e1].user = "u1" /\ ev[e2].user = "u1"
       /\ Marked(e1) /\ ev[e1].pc = "done" /\ Cardinality(ev[e1].unread) = 2
       /\ \E i \in Pos(emits, e1, "messages_read") : emits[i].n = 2
       /\ Marked(e2) /\ ev[e2].pc = "done" /\ ev[e2].unread = {}
       /\ Pos(emits, e2, "messages_read") = {}

\* send event e passed the token check and the payload validation
Valid(e) == e \in SendEvents /\ ev[e].res \notin {"auth_err", "invalid"}
\* the rate limiter has decided send event e
Decided(e) == Valid(e) /\ ev[e].pc \notin {"rl_purge", "rl_count", "rl_add"}
\* the valid sends of the same sender that were handled before e and whose
\* timestamps lie less than a window before that of e
Before(e) ==
    {p \in SendEvents : /\ p < e /\ Valid(p) /\ ev[p].user = ev[e].user
                        /\ ev[p].t > ev[e].t - RATE_LIMIT_WINDOW_SECONDS}

\* C2 as claimed: sends of one sender handled one after the other from an
\* empty window, at any timestamps inside one window, equal ones included:
\* each of the first RATE_LIMIT_COUNT is admitted, and the next one is
\* rejected with exactly one error to the sender, no insert, no new_message
\* and no notification.
C2_NinthRejected ==
    \A e \in SendEvents :
       Decided(e) =>
          /\ Cardinality(Before(e)) < RATE_LIMIT_COUNT => ev[e].adm
          /\ Cardinality(Before(e)) = RATE_LIMIT_COUNT =>
                /\ ~ev[e].adm
                /\ ev[e].res = "rate_limited"
                /\ ev[e].mid = 0
                /\ Cardinality(Pos(emits, e, "error")) = 1
                /\ \A n \in Relay : Pos(emits, e, n) = {}

\* C3 as claimed: however the calls for one user interleave, the admitted
\* timestamps recorded for that user inside any one window never number
\* more than RATE_LIMIT_COUNT.
C3_CapUnderConcurrency ==
    \A u \in Users : \A m \in DOMAIN zset[u] :
       Cardinality({x \in DOMAIN zset[u] :
                       /\ zset[u][x] > zset[u][m] - RATE_LIMIT_WINDOW_SECONDS
                       /\ zset[u][x] <= zset[u][m]}) <= RATE_LIMIT_COUNT

\* the timestamps Redis held for user u when the gateway started
Prior(u) == {FullWindow[u][m] : m \in DOMAIN FullWindow[u]}
\* the timestamps of the admitted sends of user u handled before event e
AdmittedBefore(u, e) ==
    Prior(u) \cup {ev[p].t : p \in {q \in SendEvents : q < e /\ ev[q].user = u /\ ev[q].adm}}
\* those of them that lie in the window that trails the timestamp of e
WindowBefore(e) ==
    {x \in AdmittedBefore(ev[e].user, e) :
        x > ev[e].t - RATE_LIMIT_WINDOW_SECONDS /\ x <= ev[e].t}
Rejected(e) == e \in SendEvents /\ ev[e].res = "rate_limited"

\* C11: a rejected check records nothing: every timestamp Redis holds for a
\* user is the timestamp of an admitted send of that user.  A send handled
\* after any number of rejected ones is admitted whenever fewer than
\* RATE_LIMIT_COUNT admitted timestamps lie in the window trailing its own
\* timestamp.
C11_UnblockedByTime ==
    /\ \A u \in Users : \A m \in DOMAIN zset[u] :
          /\ zset[u][m] \in AdmittedBefore(u, Len(ev) + 1)
          /\ m = Str(zset[u][m])
    /\ \A e \in SendEvents :
          /\ Rejected(e) => ~ev[e].adm /\ ev[e].mid = 0
          /\ (Decided(e) /\ Cardinality(WindowBefore(e)) < RATE_LIMIT_COUNT) => ev[e].adm

\* C11 witness: u2 was rejected at second 59, rejected again, and then
\* admitted at a later second with seven admitted timestamps in the window;
\* none of the rejected attempts left a timestamp behind.
C11_Witness ==
    \E e1, e2, e3 \in SendEvents :
       /\ e1 < e2 /\ e2 < e3
       /\ Rejected(e1) /\ Rejected(e2) /\ ev[e1].t = RATE_LIMIT_WINDOW_SECONDS - 1
       /\ ev[e3].adm /\ ev[e3].t > ev[e1].t
       /\ Cardinality(WindowBefore(e3)) = RATE_LIMIT_COUNT - 1
       /\ Str(ev[e1].t) \notin DOMAIN zset["u2"]

\* the events send event e has published so far
Errors(e) == Pos(emits, e, "error")
Relayed(e) == Pos(emits, e, "new_message") \cup Pos(emits, e, "notification")

\* C12: a send_message event never publishes both an error and a
\* new_message or notification, and never more than one error; once its
\* handler has returned it has published either exactly one error, addressed
\* to the sender, and nothing else, or exactly one new_message and one
\* notification and no error.  No session holds an error of a send whose
\* message was persisted and published as new_message.
C12_OutcomesExclusive ==
    /\ \A e \in SendEvents :
          /\ Errors(e) = {} \/ Relayed(e) = {}
          /\ Cardinality(Errors(e)) <= 1
          /\ ev[e].pc = "done" =>
                \/ /\ Cardinality(Errors(e)) = 1 /\ Relayed(e) = {}
                   /\ \A i \in Errors(e) : emits[i].room = SidRoom(ev[e].sid)
                \/ /\ Errors(e) = {}
                   /\ Cardinality(Pos(emits, e, "new_message")) = 1
                   /\ Cardinality(Pos(emits, e, "notification")) = 1
                   /\ Persisted(e)
    /\ \A s \in Sids : \A i \in DOMAIN inbox[s] :
          (inbox[s][i].name = "error" /\ inbox[s][i].ev \in SendEvents) =>
             /\ ~Persisted(inbox[s][i].ev)
             /\ \A n \in Relay : Pos(inbox[s], inbox[s][i].ev, n) = {}

\* C12 witness: a sender that is its own receiver holds the new_message and
\* the notification of its send and no error for it; another send failed at
\* the store and its sender holds the error and nothing else of it.
C12_Witness ==
    \E e1, e2 \in SendEvents :
       /\ ev[e1].res = "sent"
       /\ Pos(inbox[ev[e1].sid], e1, "new_message") # {}
       /\ Pos(inbox[ev[e1].sid], e1, "notification") # {}
       /\ Pos(inbox[ev[e1].sid], e1, "error") = {}
       /\ InsertFailed(e2)
       /\ Pos(inbox[ev[e2].sid], e2, "error") # {}
       /\ \A n \in Relay : Pos(inbox[ev[e2].sid], e2, n) = {}

\* connection s attempted to connect without a token the verifier accepts
Refused(s) == conn[s] # "idle" /\ token[s] \notin Users

\* C13: a connection whose handshake carries no token or a rejected one is
\* closed and a member of no room; all it ever receives is the one error of
\* its connect attempt ("Authentication token required" without a token,
\* "Authentication failed" otherwise): no connected acknowledgment and no
\* broadcast.  The handler publishes nothing else for it.
C13_RefusedConnect ==
    \A s \in Sids :
       Refused(s) =>
          /\ conn[s] = "closed"
          /\ rooms[s] = {}
          /\ Len(inbox[s]) = 1
          /\ inbox[s][1].name = "error" /\ inbox[s][1].ev = 0
          /\ inbox[s][1].val = IF Falsy(token[s]) THEN "Authentication token required"
                               ELSE "Authentication failed"
          /\ Cardinality({i \in DOMAIN emits : emits[i].src = s}) = 1
          /\ \A i \in DOMAIN emits : emits[i].src = s => emits[i] = inbox[s][1]

\* C13 witness: a connection with a rejected token was refused; afterwards
\* another session connected and a new_message was broadcast, and the
\* refused connection holds its error and nothing else.
C13_Witness ==
    \E s \in Sids :
       /\ Refused(s) /\ token[s] = "bad"
       /\ Len(inbox[s]) = 1
       /\ \E i, k \in DOMAIN emits :
             /\ emits[i].src = s /\ emits[i].name = "error"
             /\ i < k /\ emits[k].name = "new_message"

\* C14: a session that is connected got there with a token of some user u,
\* its first event was the connected acknowledgment carrying u, and it is a
\* member of user_{u}; this holds in every state until the session
\* disconnects, whatever events the gateway has handled and whether or not
\* the token has expired since.
C14_MailboxMember ==
    \A s \in Sids :
       conn[s] = "open" =>
          /\ token[s] \in Users
          /\ UserRoom(TokenSub(token[s])) \in rooms[s]
          /\ Len(inbox[s]) >= 1
          /\ inbox[s][1].name = "connected" /\ inbox[s][1].val = TokenSub(token[s])
          /\ \A i \in DOMAIN inbox[s] : i > 1 => inbox[s][i].name # "connected"

\* C14 witness: a session whose token has expired is still connected; it
\* joined a conversation, and a notification that another session's later
\* send addressed to its user's mailbox reached it.
C14_Witness ==
    \E s \in Sids, j \in JoinEvents, e \in SendEvents :
       /\ conn[s] = "open" /\ s \in expired
       /\ Joined(j) /\ ev[j].sid = s /\ ConvRoom(ev[j].bid) \in rooms[s]
       /\ j < e /\ ev[e].sid # s
       /\ Pos(inbox[s], e, "notification") # {}

\* the read-receipt update of join event j raised
MarkFailed(j) == j \in JoinEvents /\ ev[j].res = "mark_failed"

\* C15: a join whose read-receipt update raised has published its status
\* acknowledgment to the joining session, which holds it, and nothing else:
\* no error and no messages_read.  The session is a member of conv_{id}
\* while it is connected, and it holds every new_message and booking_updated
\* published to conv_{id} after the acknowledgment.
C15_MarkFailureSwallowed ==
    \A j \in JoinEvents :
       MarkFailed(j) =>
          LET s == ev[j].sid
              ack == Pos(emits, j, "status")
          IN /\ Cardinality(ack) = 1
             /\ \A i \in DOMAIN emits : emits[i].ev = j => i \in ack
             /\ \A i \in ack : emits[i].room = SidRoom(s)
             /\ Cardinality(Pos(inbox[s], j, "status")) = 1
             /\ \A r \in Sids : \A i \in DOMAIN inbox[r] :
                   inbox[r][i].ev = j => r = s /\ inbox[r][i].name = "status"
             /\ conn[s] = "open" =>
                   /\ ConvRoom(ev[j].bid) \in rooms[s]
                   /\ \A i \in ack : \A k \in DOMAIN emits :
                         (k > i /\ emits[k].room = ConvRoom(ev[j].bid)) =>
                            \E m \in DOMAIN inbox[s] : inbox[s][m] = emits[k]

\* C15 witness: the update of a join into b1 raised, a message was then
\* broadcast to conv_b1, and the joining session, still connected, holds the
\* acknowledgment and the message.
C15_Witness ==
    \E j \in JoinEvents, e \in SendEvents :
       /\ MarkFailed(j) /\ conn[ev[j].sid] = "open"
       /\ \E i \in Pos(emits, j, "status") : \E k \in Pos(emits, e, "new_message") :
             i < k /\ emits[k].room = ConvRoom(ev[j].bid)
       /\ Pos(inbox[ev[j].sid], e, "new_message") # {}

\* event record x failed the token check (the handler resolved no user)
Unauthenticated(x) == x.user = None
\* send event record x names no receiver or has no content after trimming
BadSend(x) == Falsy(x.rcv) \/ x.content = <<>>
\* the step receives a new event
Receives == Len(ev') = Len(ev) + 1
\* the step publishes exactly one event, an error, and delivers it to
\* session s alone
OneErrorTo(s) ==
    /\ Len(emits') = Len(emits) + 1
    /\ SubSeq(emits', 1, Len(emits)) = emits
    /\ emits'[Len(emits')].name = "error"
    /\ emits'[Len(emits')].room = SidRoom(s)
    /\ inbox' = [inbox EXCEPT ![s] = Append(@, emits'[Len(emits')])]

\* C16, on the states: a send that fails the token check or the payload
\* validation is over at once, is never admitted by the rate limiter and
\* never inserted, and has published one error and nothing else.
C16_State ==
    \A e \in SendEvents :
       (Unauthenticated(ev[e]) \/ BadSend(ev[e])) =>
          /\ ev[e].pc = "done"
          /\ ev[e].res = IF Unauthenticated(ev[e]) THEN "auth_err" ELSE "invalid"
          /\ ~ev[e].adm /\ ev[e].mid = 0
          /\ Cardinality(Errors(e)) = 1
          /\ \A i \in DOMAIN emits : emits[i].ev = e => i \in Errors(e)
          /\ \A s \in Sids : \A i \in DOMAIN inbox[s] : inbox[s][i].ev = e => s = ev[e].sid

\* C16, on the steps: the step that receives such a send leaves the
\* rate-limit windows, the message store and the room registry as they
\* are, and delivers one error to the sender and nothing to anyone else.
C16_Step ==
    (Receives /\ ev'[Len(ev')].kind = "send"
       /\ (Unauthenticated(ev'[Len(ev')]) \/ BadSend(ev'[Len(ev')]))) =>
          /\ zset' = zset /\ expiry' = expiry
          /\ messages' = messages
          /\ rooms' = rooms
          /\ OneErrorTo(ev'[Len(ev')].sid)

\* C16: a send_message that fails authentication or payload validation
\* yields exactly one error to the sender and changes nothing else.
C16_InvalidSendNoEffect == [](C16_State) /\ [][C16_Step]_vars

\* C16 witness: one send was refused for a token that no longer decodes and
\* one for a content of whitespace only; the store is empty and the sender's
\* window holds no timestamp.
C16_Witness ==
    \E e1, e2 \in SendEvents :
       /\ ev[e1].res = "auth_err" /\ ev[e1].sid \in expired
       /\ ev[e2].res = "invalid" /\ ev[e2].content = <<>> /\ ~Falsy(ev[e2].rcv)
       /\ ev[e2].user = "u1"
       /\ messages = <<>> /\ zset["u1"] = EmptyZ
       /\ Pos(inbox[ev[e1].sid], e1, "error") # {} /\ Pos(inbox[ev[e2].sid], e2, "error") # {}

\* join event record x carries no conversation id
BadJoin(x) == Falsy(x.bid)

\* C17, on the states: a join that fails the token check or carries no
\* conversation id is over at once and has published one error, to the
\* caller, and nothing else: no status and no messages_read.
C17_State ==
    \A j \in JoinEvents :
       (Unauthenticated(ev[j]) \/ BadJoin(ev[j])) =>
          /\ ev[j].pc = "done"
          /\ ev[j].res = IF Unauthenticated(ev[j]) THEN "auth_err" ELSE "invalid"
          /\ Cardinality(Pos(emits, j, "error")) = 1
          /\ \A i \in DOMAIN emits : emits[i].ev = j => emits[i].name = "error"
          /\ \A s \in Sids : \A i \in DOMAIN inbox[s] : inbox[s][i].ev = j => s = ev[j].sid

\* C17, on the steps: the step that receives such a join leaves the room
\* registry and the message store (every read_at) as they are, and delivers
\* one error to the caller and nothing to anyone else.
C17_Step ==
    (Receives /\ ev'[Len(ev')].kind = "join"
       /\ (Unauthenticated(ev'[Len(ev')]) \/ BadJoin(ev'[Len(ev')]))) =>
          /\ rooms' = rooms
          /\ messages' = messages
          /\ OneErrorTo(ev'[Len(ev')].sid)

\* C17: a join_conversation that fails authentication or carries no
\* conversation id yields exactly one error to the caller and changes
\* nothing else.
C17_InvalidJoinNoEffect == [](C17_State) /\ [][C17_Step]_vars

\* C17 witness: a session sent a join without a conversation id and, its
\* token having expired, a join into b1; it holds the two errors and is
\* still a member of its mailbox room only.
C17_Witness ==
    \E j1, j2 \in JoinEvents :
       /\ ev[j1].sid = ev[j2].sid
       /\ ev[j1].res = "invalid" /\ ev[j1].bid = ""
       /\ ev[j2].res = "auth_err" /\ ev[j2].bid = "b1"
       /\ conn[ev[j1].sid] = "open"
       /\ rooms[ev[j1].sid] = {UserRoom(TokenSub(token[ev[j1].sid]))}
       /\ Pos(inbox[ev[j1].sid], j1, "error") # {} /\ Pos(inbox[ev[j1].sid], j2, "error") # {}

\* booking event record x carries no booking id or no status
BadBooking(x) == Falsy(x.bid) \/ Falsy(x.status)

\* C18, on the states: a booking_update without a valid token, a booking id
\* or a status is over at once; no event of any name was ever published for
\* it and the booking store was not asked for the seller.
C18_State ==
    \A e \in BookEvents :
       (Unauthenticated(ev[e]) \/ BadBooking(ev[e])) =>
          /\ ev[e].pc = "done"
          /\ ev[e].res = "ignored"
          /\ ev[e].seller = None
          /\ \A i \in DOMAIN emits : emits[i].ev # e
          /\ \A s \in Sids : \A i \in DOMAIN inbox[s] : inbox[s][i].ev # e

\* C18, on the steps: the step that receives such a booking_update
\* publishes and delivers nothing, sends no request to a store, and changes
\* nothing but the record of the event itself.
C18_Step ==
    (Receives /\ ev'[Len(ev')].kind = "book"
       /\ (Unauthenticated(ev'[Len(ev')]) \/ BadBooking(ev'[Len(ev')]))) =>
          /\ emits' = emits /\ inbox' = inbox
          /\ faults' = faults /\ bookings' = bookings /\ messages' = messages
          /\ rooms' = rooms
          /\ ev'[Len(ev')].pc = "done"

\* C18: a booking_update with no valid token, or with booking_id or status
\* missing, is ignored silently: nothing is emitted and the booking store is
\* not queried.
C18_BookingIgnoredSilently == [](C18_State) /\ [][C18_Step]_vars

\* C18 witness: the seller of b1 sent a booking_update without a status, and
\* a session whose token has expired sent a well-formed one; nothing at all
\* was published after the connects.
C18_Witness ==
    \E e1, e2 \in BookEvents :
       /\ ev[e1].user = "u1" /\ ev[e1].bid = "b1" /\ ev[e1].status = ""
       /\ ev[e2].user = None /\ ev[e2].bid = "b1" /\ ev[e2].status = "done"
       /\ ev[e1].res = "ignored" /\ ev[e2].res = "ignored"
       /\ \A i \in DOMAIN emits : emits[i].ev = 0

\* C19 as claimed: the row stored for a persisted send carries the user id
\* of the sending session as sender_id, and the receiver_id and the content
\* exactly as the client sent them, blanks at either end included.
C19_RoundTrip ==
    \A e \in SendEvents :
       Persisted(e) =>
          /\ messages[ev[e].mid].sender_id = TokenSub(token[ev[e].sid])
          /\ messages[ev[e].mid].receiver_id = ev[e].rcv
          /\ messages[ev[e].mid].content = ev[e].raw

\* session r holds exactly k events called name of event e
Holds(r, e, name, k) == Cardinality(Pos(inbox[r], e, name)) = k
\* session r is connected and a member of room
InRoom(r, room) == conn[r] = "open" /\ room \in rooms[r]

\* the send e is through: its row is stored, new_message and notification
\* were published once each, every session that is connected and a member
\* of the room in question holds the event, and a session that is gone holds
\* neither (the sender included)
Delivered(e) ==
    /\ e \in DOMAIN ev /\ ev[e].pc = "done" /\ ev[e].res = "sent"
    /\ Persisted(e) /\ ev[e].mid \in DOMAIN messages
    /\ Cardinality(Pos(emits, e, "new_message")) = 1
    /\ Cardinality(Pos(emits, e, "notification")) = 1
    /\ \A r \in Sids :
          /\ Holds(r, e, "new_message",
                   IF InRoom(r, TargetRoom(ev[e].bid, ev[e].rcv)) THEN 1 ELSE 0)
          /\ Holds(r, e, "notification", IF InRoom(r, UserRoom(ev[e].rcv)) THEN 1 ELSE 0)

\* C20: a send that waits for the store insert is carried through whether
\* or not its session disconnects meanwhile: the row is stored, new_message
\* and notification reach the sessions that are members of the target rooms
\* when they are emitted, and the session that is gone gets neither.
C20_DisconnectMidSend ==
    \A e \in 1 .. MaxDropEvents : [](AtInsert(e) => <>Delivered(e))

\* C20 witness: the sender disconnected while its send waited for the
\* insert; the row is stored, the other session of u1 holds new_message and
\* notification, and the sender, gone, holds neither.
C20_Witness ==
    \E e \in SendEvents :
       /\ conn[ev[e].sid] = "closed"
       /\ \A p \in SendEvents : p <= e
       /\ Delivered(e)
       /\ Holds(2, e, "new_message", 1) /\ Holds(2, e, "notification", 1)
       /\ Holds(ev[e].sid, e, "new_message", 0) /\ Holds(ev[e].sid, e, "notification", 0)

\* the step is the read-receipt update of a join of user u into conversation c
MarksFor(u, c) ==
    \E j \in DOMAIN ev :
       /\ ev[j].kind = "join" /\ ev[j].pc = "mark" /\ ev'[j].pc # "mark"
       /\ ev[j].user = u /\ ev[j].bid = c

\* C21, on the states: a row whose read_at is set is a row one of the joins
\* of its receiver into its conversation found unread.
C21_State ==
    \A i \in DOMAIN messages :
       messages[i].read_at # NullTs =>
          \E j \in JoinEvents :
             /\ Marked(j) /\ i \in ev[j].unread
             /\ ev[j].user = messages[i].receiver_id
             /\ ev[j].bid = messages[i].booking_id

\* C21, on the steps: no row is removed; a row that appears has read_at
\* null; a row whose read_at is set never changes again; and a row's read_at
\* goes from null to a timestamp only in the update of a join of the row's
\* receiver into the row's conversation, nothing else of the row changing.
C21_Step ==
    /\ Len(messages') >= Len(messages)
    /\ \A i \in DOMAIN messages' :
          IF i \notin DOMAIN messages THEN messages'[i].read_at = NullTs
          ELSE IF messages[i].read_at # NullTs THEN messages'[i] = messages[i]
          ELSE \/ messages'[i] = messages[i]
               \/ /\ messages'[i] = [messages[i] EXCEPT !.read_at = now]
                  /\ MarksFor(messages[i].receiver_id, messages[i].booking_id)

\* C21: read_at is null at insert, is set only by a join of the message's
\* receiver into the message's conversation, and once set is never reset or
\* overwritten.
C21_ReadAtOneWay == [](C21_State) /\ [][C21_Step]_vars

\* C21 witness: u1 joined b1 at second 0 and two rows were marked; a new
\* message arrived, the clock advanced, and a later join of u1 marked the new
\* row at second 1 while the rows marked before still carry second 0.
C21_Witness ==
    \E j1, j2 \in JoinEvents : \E i \in ev[j1].unread, k \in ev[j2].unread :
       /\ j1 < j2 /\ Marked(j1) /\ Marked(j2)
       /\ messages[i].read_at = 0 /\ messages[k].read_at = 1
       /\ messages[i].receiver_id = "u1" /\ messages[k].receiver_id = "u1"

\* C22: the bookings table is never written: it is what it was when the
\* gateway started.  Every booking_updated was published by a booking_update
\* of the booking's seller, once, to conv_{booking_id}, and carries the
\* booking id and the status of that event as sent and the caller's user id;
\* a booking_update that was relayed published nothing else.  Every session
\* that holds a booking_updated holds the event as published.
C22_BookingRelayOnly ==
    /\ bookings = StoredBookings
    /\ \A i \in DOMAIN emits :
          emits[i].name = "booking_updated" =>
             LET e == emits[i].ev IN
             /\ e \in BookEvents
             /\ emits[i].room = ConvRoom(ev[e].bid)
             /\ emits[i].bid = ev[e].bid
             /\ emits[i].val = ev[e].status
             /\ emits[i].sender = ev[e].user
             /\ ev[e].bid \in DOMAIN bookings
             /\ ev[e].user = bookings[ev[e].bid].seller_id
    /\ \A e \in BookEvents :
          /\ Cardinality(Pos(emits, e, "booking_updated")) <= 1
          /\ ev[e].res = "relayed" =>
                /\ Cardinality(Pos(emits, e, "booking_updated")) = 1
                /\ \A i \in DOMAIN emits : emits[i].ev = e => emits[i].name = "booking_updated"
    /\ \A s \in Sids : \A i \in DOMAIN inbox[s] :
          inbox[s][i].name = "booking_updated" =>
             \E k \in DOMAIN emits : emits[k] = inbox[s][i]

\* C22 witness: the seller of b1 sent the status "done" while the store
\* says "pending"; booking_updated with "done" reached another session that
\* had joined b1, and the store still says "pending".
C22_Witness ==
    \E e \in BookEvents, r \in Sids :
       /\ ev[e].res = "relayed" /\ ev[e].status = "done" /\ r # ev[e].sid
       /\ \E i \in Pos(inbox[r], e, "booking_updated") :
             inbox[r][i].val = "done" /\ inbox[r][i].sender = "u1"
       /\ bookings["b1"].status = "pending"

\* the user id the connect of session s resolved: the user_id of its
\* connected acknowledgment
ConnectUser(s) == inbox[s][1].val

\* C23: the user a handler acts for is the user the connect of its session
\* resolved.  The sender_id of every stored row, the sender_id of every
\* new_message and notification and the updated_by of every booking_updated
\* is the connect-time user of the session the event came from, whoever the
\* payload names as receiver.
C23_IdentityBinding ==
    /\ \A s \in Sids : conn[s] # "idle" /\ token[s] \in Users =>
          /\ inbox[s][1].name = "connected"
          /\ ConnectUser(s) = TokenSub(token[s])
    /\ \A e \in DOMAIN ev : ev[e].user # None => ev[e].user = ConnectUser(ev[e].sid)
    /\ \A i \in DOMAIN messages :
          \E e \in SendEvents :
             ev[e].mid = i /\ messages[i].sender_id = ConnectUser(ev[e].sid)
    /\ \A i \in DOMAIN emits :
          emits[i].name \in {"new_message", "notification", "booking_updated"} =>
             emits[i].sender = ConnectUser(emits[i].src)
    /\ \A s \in Sids : \A i \in DOMAIN inbox[s] :
          inbox[s][i].name \in {"new_message", "notification", "booking_updated"} =>
             inbox[s][i].sender = ConnectUser(inbox[s][i].src)

\* C23 witness: the session of u2 sent a message naming u1 as receiver and
\* the session of u1 a booking_update; the row and the new_message u1 holds
\* carry u2, the booking_updated carries u1.
C23_Witness ==
    \E e \in SendEvents, b \in BookEvents :
       /\ ev[e].sid = 2 /\ ev[e].rcv = "u1" /\ ev[e].res = "sent"
       /\ messages[ev[e].mid].sender_id = "u2"
       /\ \E i \in Pos(inbox[1], e, "new_message") : inbox[1][i].sender = "u2"
       /\ ev[b].sid = 1 /\ ev[b].res = "relayed"
       /\ \E i \in Pos(emits, b, "booking_updated") : emits[i].sender = "u1"

\* C24 as claimed: a session holds a new_message only if its user is the
\* sender or the receiver of the message.
C24_RelayConfidential ==
    \A s \in Sids : \A i \in DOMAIN inbox[s] :
       inbox[s][i].name = "new_message" =>
          ConnectUser(s) \in {inbox[s][i].sender, inbox[s][i].receiver}

\* C25: a connected session is a member of its mailbox room and of conv_X
\* for every X it ever joined, whatever it joined afterwards, and it holds
\* every event published to conv_X after the acknowledgment of that join.
C25_MembershipOnlyGrows ==
    \A j \in JoinEvents :
       (Joined(j) /\ conn[ev[j].sid] = "open") =>
          LET s == ev[j].sid IN
          /\ ConvRoom(ev[j].bid) \in rooms[s]
          /\ UserRoom(ConnectUser(s)) \in rooms[s]
          /\ \A i \in Pos(emits, j, "status") : \A k \in DOMAIN emits :
                (k > i /\ emits[k].room = ConvRoom(ev[j].bid)) =>
                   \E m \in DOMAIN inbox[s] : inbox[s][m] = emits[k]

\* C25 witness: u1's session joined b1 and then b2; a message sent into b1
\* after both joins reached it, and so did one sent into b2.
C25_Witness ==
    \E j1, j2 \in JoinEvents, e1, e2 \in SendEvents :
       /\ j1 < j2 /\ j2 < e1 /\ j2 < e2
       /\ ev[j1].bid = "b1" /\ ev[j2].bid = "b2"
       /\ ev[e1].bid = "b1" /\ ev[e2].bid = "b2"
       /\ conn[1] = "open"
       /\ Pos(inbox[1], e1, "new_message") # {} /\ Pos(inbox[1], e2, "new_message") # {}

\* C26, on the states: a connected session, its token expired or not, is a
\* member of its mailbox room and of every conversation it joined, and holds
\* every event published to one of these rooms since.  An event handled
\* without a user comes from a session whose token has expired.
C26_State ==
    /\ \A s \in Sids : conn[s] = "open" =>
          /\ UserRoom(ConnectUser(s)) \in rooms[s]
          /\ \A k \in DOMAIN emits :
                (emits[k].ev > 0 /\ emits[k].room = UserRoom(ConnectUser(s))) =>
                   \E m \in DOMAIN inbox[s] : inbox[s][m] = emits[k]
    /\ \A j \in JoinEvents : (Joined(j) /\ conn[ev[j].sid] = "open") =>
          /\ ConvRoom(ev[j].bid) \in rooms[ev[j].sid]
          /\ \A i \in Pos(emits, j, "status") : \A k \in DOMAIN emits :
                (k > i /\ emits[k].room = ConvRoom(ev[j].bid)) =>
                   \E m \in DOMAIN inbox[ev[j].sid] : inbox[ev[j].sid][m] = emits[k]
    /\ \A e \in DOMAIN ev : Unauthenticated(ev[e]) => ev[e].sid \in expired

\* C26, on the steps: the expiry of a token closes no connection and changes
\* no room.  An event received from a session whose token has expired is
\* handled without a user and is over at once: a join_conversation or
\* send_message is answered with one error to the caller, a booking_update
\* with nothing, and neither the rooms, the message store, the bookings nor
\* the rate-limit windows change.
C26_Step ==
    /\ expired' # expired => conn' = conn /\ rooms' = rooms /\ inbox' = inbox
    /\ (Receives /\ ev'[Len(ev')].sid \in expired) =>
          LET x == ev'[Len(ev')] IN
          /\ Unauthenticated(x) /\ x.pc = "done"
          /\ rooms' = rooms /\ messages' = messages /\ bookings' = bookings
          /\ zset' = zset /\ expiry' = expiry /\ conn' = conn
          /\ IF x.kind = "book" THEN emits' = emits /\ inbox' = inbox
             ELSE OneErrorTo(x.sid)

\* C26: a session whose token expires after its connect stays connected and
\* in its rooms and keeps receiving their broadcasts, while its own later
\* join_conversation and send_message are rejected with an error and its
\* booking_update is ignored, none of them having any other effect.
C26_ExpiredTokenSession == [](C26_State) /\ [][C26_Step]_vars

\* C26 witness: u2's session joined b1 and its token expired; its next send
\* was rejected.  After that u1's session sent into b1, joined b1 and sent a
\* booking_update, and u2's session holds the new_message, the notification,
\* the messages_read and the booking_updated.
C26_Witness ==
    \E r, e \in SendEvents, j \in JoinEvents, b \in BookEvents :
       /\ ev[r].sid = 1 /\ ev[r].res = "auth_err" /\ 1 \in expired /\ conn[1] = "open"
       /\ r < e /\ r < j /\ r < b
       /\ Pos(inbox[1], e, "new_message") # {}
       /\ Pos(inbox[1], e, "notification") # {}
       /\ Pos(inbox[1], j, "messages_read") # {}
       /\ Pos(inbox[1], b, "booking_updated") # {}

\* the persisted sends of the sender of e admitted in the window that ends
\* at the admission time of e
PersistedInWindow(e) ==
    {p \in SendEvents : /\ Persisted(p) /\ ev[p].user = ev[e].user
                        /\ ev[p].t > ev[e].t - RATE_LIMIT_WINDOW_SECONDS
                        /\ ev[p].t <= ev[e].t}

\* C27 as claimed, for sends of one sender handled one at a time: an
\* admitted send whose insert failed keeps its timestamp in the sender's
\* window, and the persisted messages admitted inside any one window never
\* number more than RATE_LIMIT_COUNT.
C27_AdmissionNotRefunded ==
    \A e \in SendEvents :
       /\ (ev[e].adm /\ InsertFailed(e) /\ now < ev[e].t + RATE_LIMIT_WINDOW_SECONDS)
             => Str(ev[e].t) \in DOMAIN ZGet(ev[e].user)
       /\ Persisted(e) => Cardinality(PersistedInWindow(e)) <= RATE_LIMIT_COUNT

\* the messages_read events published for joins of user u into conversation c
ReadEvents(u, c) ==
    {i \in DOMAIN emits : /\ emits[i].name = "messages_read"
                          /\ ev[emits[i].ev].user = u /\ ev[emits[i].ev].bid = c}
RECURSIVE SumCounts(_)
SumCounts(S) == IF S = {} THEN 0
                ELSE LET i == CHOOSE x \in S : TRUE IN emits[i].n + SumCounts(S \ {i})
\* the rows of the backlog addressed to user u in conversation c
BacklogFor(u, c) ==
    {i \in DOMAIN Backlog : Backlog[i].receiver_id = u /\ Backlog[i].booking_id = c}
\* the joins of user u into conversation c
JoinsOf(u, c) == {j \in JoinEvents : ev[j].user = u /\ ev[j].bid = c}

\* C28: however the updates of concurrent joins interleave, no row is
\* marked by two joins; every messages_read announces the number of rows its
\* own join marked, and never 0; and once the joins of a user into a
\* conversation are over, every row that was unread for that user there is
\* marked, by exactly one of them, and the announced counts sum to the
\* number of those rows.
C28_ConcurrentJoins ==
    /\ \A j1, j2 \in JoinEvents : j1 # j2 => ev[j1].unread \cap ev[j2].unread = {}
    /\ \A i \in DOMAIN messages :
          messages[i].read_at # NullTs <=> \E j \in JoinEvents : i \in ev[j].unread
    /\ \A j \in JoinEvents :
          /\ Cardinality(Pos(emits, j, "messages_read")) <= 1
          /\ \A i \in Pos(emits, j, "messages_read") :
                emits[i].n = Cardinality(ev[j].unread) /\ emits[i].n > 0
    /\ \A u \in Users :
          (JoinsOf(u, "b1") # {} /\ \A j \in JoinsOf(u, "b1") : ev[j].pc = "done") =>
             /\ UNION {ev[j].unread : j \in JoinsOf(u, "b1")} = BacklogFor(u, "b1")
             /\ SumCounts(ReadEvents(u, "b1")) = Cardinality(BacklogFor(u, "b1"))

\* C28 witness: the two sessions of u1 joined b1 at the same time, each of
\* the updates marked one of the two unread rows, and each join announced
\* count 1.
C28_Witness ==
    \E j1, j2 \in JoinEvents :
       /\ j1 # j2 /\ ev[j1].sid = 1 /\ ev[j2].sid = 2
       /\ ev[j1].pc = "done" /\ ev[j2].pc = "done"
       /\ Cardinality(ev[j1].unread) = 1 /\ Cardinality(ev[j2].unread) = 1
       /\ \E i \in Pos(emits, j1, "messages_read") : emits[i].n = 1
       /\ \E i \in Pos(emits, j2, "messages_read") : emits[i].n = 1

\* the requests before request i that passed the gate for the same email
\* during the LoginWindow seconds before it
PassedBefore(i) ==
    {j \in 1 .. i - 1 : /\ logins[j].email = logins[i].email
                        /\ logins[j].status # "429"
                        /\ logins[j].t > logins[i].t - LoginWindow}

\* C29: a login request passes the gate exactly when fewer than 10
\* requests for its email passed the gate during the 900 seconds before it.
C29_SlidingWindow ==
    \A i \in DOMAIN logins :
       logins[i].status # "429" <=> Cardinality(PassedBefore(i)) < LoginLimit

\* the call of the decorated function is over
Finished == wrapper.pc \in {"returned", "raised"}
\* what holds of a call at every moment
RetryState ==
    wrapper.pc # "idle" =>
       LET calls == Len(wrapper.outcomes)
           failed == {k \in 1 .. calls : wrapper.outcomes[k].raises /\ Transient(wrapper.outcomes[k].text)}
       IN  /\ calls <= wrapper.max_retries
           /\ wrapper.retries = Cardinality(failed)
           /\ \A k \in 1 .. calls - 1 : k \in failed
           /\ \A k \in DOMAIN wrapper.slept : wrapper.slept[k] = Pow(wrapper.backoff, k)
           /\ Len(wrapper.slept) = IF wrapper.pc = "sleep" THEN wrapper.retries - 1
                                   ELSE wrapper.retries
           /\ wrapper.pc = "returned" =>
                 /\ ~wrapper.outcomes[calls].raises
                 /\ wrapper.result = Value(calls)
           /\ (calls > 0 /\ ~wrapper.outcomes[calls].raises) => wrapper.pc = "returned"
           /\ (calls > 0 /\ calls \notin failed /\ wrapper.outcomes[calls].raises) =>
                 wrapper.pc = "raised" /\ wrapper.result = Exc(wrapper.outcomes[calls].text)
           /\ wrapper.pc = "raised" =>
                 \/ /\ calls > 0 /\ calls \notin failed
                    /\ wrapper.result = Exc(wrapper.outcomes[calls].text)
                 \/ /\ calls = wrapper.max_retries /\ failed = 1 .. calls
                    /\ Len(wrapper.slept) = wrapper.max_retries
                    /\ wrapper.result = FailedAfter(wrapper.max_retries)
           /\ (wrapper.pc = "loop" /\ wrapper.retries >= wrapper.max_retries) =>
                 ENABLED RetryGiveUp

\* C30: a call of a function decorated with retry_supabase ends, after
\* no more than max_retries invocations.  Every invocation but the last
\* raised a transient exception and was followed by a sleep of backoff^k
\* seconds, k its number; the call returns the value of the first invocation
\* that returns, re-raises the first exception that is not transient, and
\* raises "failed after max_retries retries" when max_retries invocations
\* raised transient exceptions.
C30_RetryTerminates ==
    /\ [](RetryState)
    /\ (wrapper.pc # "idle") ~> Finished

\* C30 witness: with max_retries = 3 and backoff = 2 the function raised
\* a transient exception three times; the wrapper slept 2, 4 and 8 seconds
\* and raised "failed after 3 retries".
C30_Witness ==
    /\ wrapper.pc = "raised"
    /\ wrapper.max_retries = 3 /\ wrapper.backoff = 2
    /\ Len(wrapper.outcomes) = 3
    /\ wrapper.slept = <<2, 4, 8>>
    /\ now = 14
    /\ wrapper.result = FailedAfter(3)

====
